---- MODULE Spec2Model ----
(***************************************************************************)
(* Model of the kalshi-cpp client SDK.                                     *)
(*                                                                         *)
(*   Part I   LiveMarketView (examples/live_market_view.hpp): the          *)
(*            per-ticker order book rebuilt from snapshot, delta and       *)
(*            trade messages.                                              *)
(*   Part II  Signer (src/auth/signer.cpp) and HttpClient::request         *)
(*            (src/http/client.cpp): the canonical message that is signed  *)
(*            and the request that is put on the wire.                     *)
(*   Part III WebSocketClient (src/ws/websocket.cpp): connect and          *)
(*            disconnect, the service thread's callbacks, the commands     *)
(*            and the send queue, the receive buffer.                      *)
(*   Part IV  with_retry (include/kalshi/retry.hpp).                       *)
(*   Part V   RateLimiter (src/core/rate_limit.cpp): the token bucket.     *)
(*   Part VI  PaginatedIterator (include/kalshi/pagination.hpp).           *)
(***************************************************************************)
EXTENDS Integers, Sequences, FiniteSets, TLC

(***************************************************************************)
(* Bounds of the model.                                                    *)
(***************************************************************************)
\* largest total quantity resting in the books of one instrument
MaxQty == 2
\* largest sequence number carried by a snapshot or a delta
MaxSeq == 2
\* largest number of entries (YES plus NO) carried by one snapshot
MaxLevels == 2

\* number of clock ticks that are followed
MaxTicks == 2
\* number of transport contexts one client creates
MaxSessions == 2
\* number of command ids one client hands out
MaxCommands == 2
\* number of fragments the transport delivers
MaxFragments == 2
\* largest RetryPolicy::max_attempts
MaxAttempts == 4
\* largest RateLimiter::Config::max_tokens
MaxTokens == 2
\* number of refill intervals the steady clock runs through
MaxIntervals == 2
\* number of pages the server holds
MaxPages == 2

VARIABLES
    states_,    \* LiveMarketView::states_ : ticker -> LiveMarketState
    last,       \* the message of the process_message call that has just run
    client,     \* HttpClient::Impl : signer, config, curl
    now,        \* std::chrono::system_clock, in epoch milliseconds
    signed,     \* the most recent call of the signer and what it returned
    wire,       \* the most recent request handed to the transport
    data,       \* WsImplData
    lws,        \* libwebsockets: contexts created, state of the connection
    pc,         \* where the callers of connect() and disconnect() are
    cmd,        \* where each thread that issues a command is
    handshake,  \* the most recent lws_client_connect_via_info request
    state_log,  \* invocations of the state-change callback
    error_log,  \* invocations of the error callback
    message_log,\* invocations of the message callback
    dispatched, \* the texts handle_message was called with
    written,    \* the lws_write calls, in order
    queued,     \* the texts pushed to send_queue, in order
    rx,         \* the fragments delivered by the transport, in order
    retry,      \* the with_retry call in progress
    limiter,    \* RateLimiter : config_, mutex_, tokens_, last_refill_
    rate,       \* std::chrono::steady_clock, the callers of the limiter
    iter,       \* PaginatedIterator : current_cursor_, has_more_
    paging      \* the caller of the iterator and the fetches made

lmvVars == <<states_, last>>

signVars == <<client, now, signed, wire>>

wsVars == <<data, lws, pc, cmd, handshake, state_log, error_log, message_log,
            dispatched, written, queued, rx>>

retryVars == <<retry>>

rateVars == <<limiter, rate>>

pageVars == <<iter, paging>>

(***************************************************************************)
(* Values                                                                  *)
(***************************************************************************)
Tickers == {"T1"}
Prices == {40, 60}
Sides == {"Yes", "No"}
Seqs == 1..MaxSeq
SnapQtys == 0..MaxQty
DeltaQtys == {0 - MaxQty, -1, 0, 1, MaxQty}

\* std::optional<T>: the empty sequence is std::nullopt, <<v>> holds v
Nullopt == <<>>
Some(v) == <<v>>

\* std::map<K, V>: a function whose domain is the set of keys present
EmptyMap == [k \in {} |-> 0]

MapPut(m, k, v) == [x \in (DOMAIN m) \cup {k} |-> IF x = k THEN v ELSE m[x]]

MapErase(m, k) == [x \in (DOMAIN m) \ {k} |-> m[x]]

\* value-initialised mapped value of std::map<int32,int32>::operator[]
MapAt(m, k) == IF k \in DOMAIN m THEN m[k] ELSE 0

SetMax(S) == CHOOSE x \in S : \A y \in S : y <= x

SetMin(S) == CHOOSE x \in S : \A y \in S : x <= y

(***************************************************************************)
(* LiveMarketState                                                         *)
(***************************************************************************)
LiveMarketState ==
    [ticker                |-> "",
     best_bid_price        |-> Nullopt,
     best_bid_size         |-> Nullopt,
     best_ask_price        |-> Nullopt,
     best_ask_size         |-> Nullopt,
     last_trade_price      |-> Nullopt,
     last_trade_size       |-> Nullopt,
     last_trade_taker_side |-> Nullopt,
     last_trade_ts         |-> Nullopt,
     last_seq              |-> 0,
     yes_bids              |-> EmptyMap,
     yes_asks              |-> EmptyMap]

\* states_[ticker] of std::map: the stored state, or a fresh one
StateAt(m, t) == IF t \in DOMAIN m THEN m[t] ELSE LiveMarketState

get_state(m, t) == IF t \in DOMAIN m THEN Some(m[t]) ELSE Nullopt

\* variant: an empty side keeps the best price and size it had
update_best_bid_ask_KeepsStale(state) ==
    LET bids == state.yes_bids
        asks == state.yes_asks
        withBid ==
            IF DOMAIN bids # {}
            THEN [state EXCEPT !.best_bid_price = Some(SetMax(DOMAIN bids)),
                               !.best_bid_size = Some(bids[SetMax(DOMAIN bids)])]
            ELSE state
    IN  IF DOMAIN asks # {}
        THEN [withBid EXCEPT !.best_ask_price = Some(SetMin(DOMAIN asks)),
                             !.best_ask_size = Some(asks[SetMin(DOMAIN asks)])]
        ELSE withBid

update_best_bid_ask(state) ==
    LET bids == state.yes_bids
        asks == state.yes_asks
        withBid ==
            IF DOMAIN bids # {}
            THEN [state EXCEPT !.best_bid_price = Some(SetMax(DOMAIN bids)),
                               !.best_bid_size = Some(bids[SetMax(DOMAIN bids)])]
            ELSE [state EXCEPT !.best_bid_price = Nullopt,
                               !.best_bid_size = Nullopt]
    IN  IF DOMAIN asks # {}
        THEN [withBid EXCEPT !.best_ask_price = Some(SetMin(DOMAIN asks)),
                             !.best_ask_size = Some(asks[SetMin(DOMAIN asks)])]
        ELSE [withBid EXCEPT !.best_ask_price = Nullopt,
                             !.best_ask_size = Nullopt]

\* the loop over snap.yes: entries are stored in order, a later entry of the
\* same price overwrites an earlier one
RECURSIVE FillBids(_, _)
FillBids(book, entries) ==
    IF entries = <<>> THEN book
    ELSE LET entry == Head(entries)
         IN  FillBids(IF entry.quantity > 0
                      THEN MapPut(book, entry.price_cents, entry.quantity)
                      ELSE book,
                      Tail(entries))

\* the loop over snap.no: a NO bid at P is a YES ask at 100 - P
RECURSIVE FillAsks(_, _)
FillAsks(book, entries) ==
    IF entries = <<>> THEN book
    ELSE LET entry == Head(entries)
         IN  FillAsks(IF entry.quantity > 0
                      THEN MapPut(book, 100 - entry.price_cents, entry.quantity)
                      ELSE book,
                      Tail(entries))

\* variant: the books are not cleared before they are refilled
handle_snapshot_NoClear(m, snap) ==
    LET state == StateAt(m, snap.market_ticker)
        filled == [state EXCEPT !.ticker = snap.market_ticker,
                                !.last_seq = snap.seq,
                                !.yes_bids = FillBids(@, snap.yes),
                                !.yes_asks = FillAsks(@, snap.no)]
    IN  MapPut(m, snap.market_ticker, update_best_bid_ask(filled))

handle_snapshot(m, snap) ==
    LET state == StateAt(m, snap.market_ticker)
        filled == [state EXCEPT !.ticker = snap.market_ticker,
                                !.last_seq = snap.seq,
                                !.yes_bids = FillBids(EmptyMap, snap.yes),
                                !.yes_asks = FillAsks(EmptyMap, snap.no)]
    IN  MapPut(m, snap.market_ticker, update_best_bid_ask(filled))

\* variant: a level whose quantity reaches 0 is kept
ApplyDelta_KeepsZero(book, price, d) ==
    LET q == MapAt(book, price) + d
    IN  IF q < 0 THEN MapErase(book, price) ELSE MapPut(book, price, q)

\* variant: the delta replaces the quantity instead of adding to it
ApplyDelta_Assign(book, price, d) ==
    IF d <= 0 THEN MapErase(book, price) ELSE MapPut(book, price, d)

\* book[price] += delta; if (book[price] <= 0) book.erase(price);
ApplyDelta(book, price, d) ==
    LET q == MapAt(book, price) + d
    IN  IF q <= 0 THEN MapErase(book, price) ELSE MapPut(book, price, q)

\* variant: a delta whose sequence number is not ahead of last_seq is ignored
handle_delta_RejectsStale(m, delta) ==
    LET state == StateAt(m, delta.market_ticker)
        seen == [state EXCEPT !.ticker = delta.market_ticker,
                              !.last_seq = delta.seq]
        applied ==
            IF delta.side = "Yes"
            THEN [seen EXCEPT !.yes_bids = ApplyDelta(@, delta.price, delta.delta)]
            ELSE [seen EXCEPT !.yes_asks = ApplyDelta(@, 100 - delta.price, delta.delta)]
    IN  IF delta.seq <= state.last_seq
        THEN MapPut(m, delta.market_ticker, state)
        ELSE MapPut(m, delta.market_ticker, update_best_bid_ask(applied))

\* variant: a delta for a ticker without state is dropped
handle_delta_DropsUnknown(m, delta) ==
    LET state == StateAt(m, delta.market_ticker)
        seen == [state EXCEPT !.ticker = delta.market_ticker,
                              !.last_seq = delta.seq]
        applied ==
            IF delta.side = "Yes"
            THEN [seen EXCEPT !.yes_bids = ApplyDelta(@, delta.price, delta.delta)]
            ELSE [seen EXCEPT !.yes_asks = ApplyDelta(@, 100 - delta.price, delta.delta)]
    IN  IF delta.market_ticker \notin DOMAIN m
        THEN m
        ELSE MapPut(m, delta.market_ticker, update_best_bid_ask(applied))

handle_delta(m, delta) ==
    LET state == StateAt(m, delta.market_ticker)
        seen == [state EXCEPT !.ticker = delta.market_ticker,
                              !.last_seq = delta.seq]
        applied ==
            IF delta.side = "Yes"
            THEN [seen EXCEPT !.yes_bids = ApplyDelta(@, delta.price, delta.delta)]
            ELSE [seen EXCEPT !.yes_asks = ApplyDelta(@, 100 - delta.price, delta.delta)]
    IN  MapPut(m, delta.market_ticker, update_best_bid_ask(applied))

\* variant: a trade older than the stored one does not overwrite it
handle_trade_NewerOnly(m, trade) ==
    LET state == StateAt(m, trade.market_ticker)
    IN  IF state.last_trade_ts # Nullopt /\ trade.timestamp < state.last_trade_ts[1]
        THEN m
        ELSE MapPut(m, trade.market_ticker,
               [state EXCEPT !.ticker = trade.market_ticker,
                             !.last_trade_price = Some(trade.yes_price),
                             !.last_trade_size = Some(trade.count),
                             !.last_trade_taker_side = Some(trade.taker_side),
                             !.last_trade_ts = Some(trade.timestamp)])

handle_trade(m, trade) ==
    LET state == StateAt(m, trade.market_ticker)
    IN  MapPut(m, trade.market_ticker,
               [state EXCEPT !.ticker = trade.market_ticker,
                             !.last_trade_price = Some(trade.yes_price),
                             !.last_trade_size = Some(trade.count),
                             !.last_trade_taker_side = Some(trade.taker_side),
                             !.last_trade_ts = Some(trade.timestamp)])

register_ticker(m, ticker) ==
    IF ticker \notin DOMAIN m
    THEN MapPut(m, ticker, [LiveMarketState EXCEPT !.ticker = ticker])
    ELSE m

\* std::visit over WsMessage: fills and lifecycle messages are ignored
process_message(m, msg) ==
    CASE msg.type = "OrderbookSnapshot" -> handle_snapshot(m, msg)
      [] msg.type = "OrderbookDelta"    -> handle_delta(m, msg)
      [] msg.type = "WsTrade"           -> handle_trade(m, msg)
      [] OTHER                          -> m

(***************************************************************************)
(* Messages                                                                *)
(***************************************************************************)
OrderBookEntry == [price_cents : Prices, quantity : SnapQtys]

RECURSIVE SeqsOfLen(_, _)
SeqsOfLen(S, n) ==
    IF n = 0 THEN {<<>>}
    ELSE {Append(s, x) : s \in SeqsOfLen(S, n - 1), x \in S}

EntryLists(n) == UNION {SeqsOfLen(OrderBookEntry, k) : k \in 0..n}

OrderbookSnapshot ==
    UNION {[type : {"OrderbookSnapshot"}, market_ticker : Tickers, seq : Seqs,
            yes : SeqsOfLen(OrderBookEntry, ny),
            no : EntryLists(MaxLevels - ny)] : ny \in 0..MaxLevels}

OrderbookDelta ==
    [type : {"OrderbookDelta"}, market_ticker : Tickers, seq : Seqs,
     price : Prices, delta : DeltaQtys, side : Sides]

WsTrade ==
    {[type |-> "WsTrade", market_ticker |-> t, yes_price |-> 55, count |-> 3,
      taker_side |-> "Yes", timestamp |-> 2] : t \in Tickers}
    \cup
    {[type |-> "WsTrade", market_ticker |-> t, yes_price |-> 45, count |-> 1,
      taker_side |-> "No", timestamp |-> 1] : t \in Tickers}
    \cup
    {[type |-> "WsTrade", market_ticker |-> t, yes_price |-> 50, count |-> 2,
      taker_side |-> "No", timestamp |-> 2] : t \in Tickers}

OtherMessage ==
    [type : {"WsFill", "MarketLifecycle"}, market_ticker : Tickers]

NoMessage == [type |-> "none"]

RECURSIVE BookQty(_)
BookQty(book) ==
    IF DOMAIN book = {} THEN 0
    ELSE LET p == SetMin(DOMAIN book)
         IN  book[p] + BookQty(MapErase(book, p))

\* the quantity resting in each instrument's books stays within the
\* modelled range
WithinBounds(m) ==
    \A t \in DOMAIN m : BookQty(m[t].yes_bids) + BookQty(m[t].yes_asks) <= MaxQty

(***************************************************************************)
(* Part II: Signer and HttpClient                                          *)
(*                                                                         *)
(* A std::string is a sequence of pieces of text; concatenating strings is *)
(* concatenating the sequences.                                            *)
(***************************************************************************)
\* the epoch millisecond at which the clock is first read
ClockStart == 9

Digits == <<"0", "1", "2", "3", "4", "5", "6", "7", "8", "9">>

\* std::to_string(std::int64_t)
RECURSIVE to_string_unsigned(_)
to_string_unsigned(n) ==
    IF n < 10 THEN <<Digits[n + 1]>>
    ELSE Append(to_string_unsigned(n \div 10), Digits[(n % 10) + 1])

to_string(n) ==
    IF n < 0 THEN <<"-">> \o to_string_unsigned(0 - n) ELSE to_string_unsigned(n)

\* constexpr to_string(HttpMethod)
HttpMethod == {"GET", "POST", "PUT", "DELETE"}

method_to_string(method) ==
    CASE method = "GET"    -> <<"GET">>
      [] method = "POST"   -> <<"POST">>
      [] method = "PUT"    -> <<"PUT">>
      [] method = "DELETE" -> <<"DELETE">>
      [] OTHER             -> <<"GET">>

\* private keys that PEM_read_bio_PrivateKey accepts
PrivateKeys == {[kind |-> "RSA", id |-> "k1"], [kind |-> "EC", id |-> "k2"]}
KeyIds == {"key-a", "key-b"}
\* the salt the PSS encoding draws for one signature
Salts == {"s1", "s2"}
\* RSA_PSS_SALTLEN_DIGEST for SHA-256, RSA_PSS_SALTLEN_MAX for a 2048 bit key
SaltLenDigest == 32
SaltLenMax == 256 - SaltLenDigest - 2

\* EVP_DigestSignInit .. EVP_DigestSignFinal: the signature binds the key,
\* the digest, the padding and its salt length, the salt and the message
EvpDigestSign(pkey, md, padding, saltlen, salt, message) ==
    [key |-> pkey.id, md |-> md, padding |-> padding, saltlen |-> saltlen,
     salt |-> salt, message |-> message]

\* BIO_f_base64 without newlines: an injective text encoding of the bytes
base64_encode(bytes) == <<"base64", bytes>>

base64_decode(text) == text[2]

\* variant: the three fields are joined with a separator
sign_with_timestamp_Separated(signer, method, path, timestamp_ms, salt) ==
    LET timestamp_str == to_string(timestamp_ms)
        message == timestamp_str \o <<" ">> \o method \o <<" ">> \o path
    IN  IF signer.pkey.kind # "RSA"
        THEN [message |-> message,
              result |-> [ok |-> FALSE, code |-> "SigningError"]]
        ELSE [message |-> message,
              result |-> [ok |-> TRUE,
                          access_key |-> signer.api_key_id,
                          signature |-> base64_encode(
                              EvpDigestSign(signer.pkey, "SHA256", "PSS",
                                            SaltLenDigest, salt, message)),
                          timestamp |-> timestamp_str]]

\* variant: the salt length is the maximum the key permits
sign_with_timestamp_MaxSalt(signer, method, path, timestamp_ms, salt) ==
    LET timestamp_str == to_string(timestamp_ms)
        message == timestamp_str \o method \o path
    IN  IF signer.pkey.kind # "RSA"
        THEN [message |-> message,
              result |-> [ok |-> FALSE, code |-> "SigningError"]]
        ELSE [message |-> message,
              result |-> [ok |-> TRUE,
                          access_key |-> signer.api_key_id,
                          signature |-> base64_encode(
                              EvpDigestSign(signer.pkey, "SHA256", "PSS",
                                            SaltLenMax, salt, message)),
                          timestamp |-> timestamp_str]]

\* Signer::sign_with_timestamp; setting the RSA padding fails for a key that
\* is not an RSA key
sign_with_timestamp(signer, method, path, timestamp_ms, salt) ==
    LET timestamp_str == to_string(timestamp_ms)
        message == timestamp_str \o method \o path
    IN  IF signer.pkey.kind # "RSA"
        THEN [message |-> message,
              result |-> [ok |-> FALSE, code |-> "SigningError"]]
        ELSE [message |-> message,
              result |-> [ok |-> TRUE,
                          access_key |-> signer.api_key_id,
                          signature |-> base64_encode(
                              EvpDigestSign(signer.pkey, "SHA256", "PSS",
                                            SaltLenDigest, salt, message)),
                          timestamp |-> timestamp_str]]

\* Signer::sign: the timestamp is the clock's epoch milliseconds
sign(signer, method, path, clock, salt) ==
    sign_with_timestamp(signer, method, path, clock, salt)

\* ClientConfig::base_url: the default, and a host without a path prefix
DefaultBaseUrl ==
    <<"https://", "api.elections.kalshi.com", "/", "trade-api", "/", "v2">>
BaseUrls == {DefaultBaseUrl, <<"https://", "localhost">>}

Paths ==
    {<<"/", "markets">>,
     <<"/", "markets", "?", "limit=1">>}

Bodies == {<<>>, <<"{}">>}

\* the timestamps handed to sign_with_timestamp
Timestamps == {-5, 0, 1234}

NoCall == [call |-> "none"]
NoRequest == [sent |-> FALSE]

\* what HttpClient::request hands to the transport: the method libcurl is
\* set to, the URL, and the header list
HttpRequest(method, url, auth, body) ==
    [sent |-> TRUE,
     method |-> method_to_string(method),
     url |-> url,
     headers |-> <<<<"KALSHI-ACCESS-KEY", auth.access_key>>,
                   <<"KALSHI-ACCESS-SIGNATURE", auth.signature>>,
                   <<"KALSHI-ACCESS-TIMESTAMP", auth.timestamp>>,
                   <<"Content-Type", "application/json">>,
                   <<"Accept", "application/json">>>>,
     body |-> body]

\* HttpClient::request up to curl_easy_perform
request(method, path, body) ==
    \E salt \in Salts :
        LET call == sign(client.signer, method_to_string(method), path, now, salt)
            url == client.config.base_url \o path
        IN  /\ client.curl
            /\ signed' = [call |-> "sign", method |-> method_to_string(method),
                          path |-> path, timestamp_ms |-> now, at |-> now,
                          message |-> call.message, result |-> call.result]
            /\ wire' = IF call.result.ok
                       THEN HttpRequest(method, url, call.result, body)
                       ELSE wire
            /\ UNCHANGED <<client, now>>

SignInit ==
    /\ client \in [signer : [api_key_id : KeyIds, pkey : PrivateKeys],
                   config : [base_url : BaseUrls],
                   curl : BOOLEAN]
    /\ now = ClockStart
    /\ signed = NoCall
    /\ wire = NoRequest

SignIdle ==
    /\ client = [signer |-> [api_key_id |-> "key-a",
                             pkey |-> [kind |-> "RSA", id |-> "k1"]],
                 config |-> [base_url |-> DefaultBaseUrl],
                 curl |-> TRUE]
    /\ now = ClockStart
    /\ signed = NoCall
    /\ wire = NoRequest

Tick ==
    /\ now < ClockStart + MaxTicks
    /\ now' = now + 1
    /\ UNCHANGED <<client, signed, wire, lmvVars, wsVars, retryVars, rateVars, pageVars>>

SignWithTimestamp ==
    \E method \in {<<"GET">>, <<"POST">>}, path \in Paths,
       timestamp_ms \in Timestamps, salt \in Salts :
        LET call == sign_with_timestamp(client.signer, method, path, timestamp_ms, salt)
        IN  /\ signed' = [call |-> "sign_with_timestamp", method |-> method,
                          path |-> path, timestamp_ms |-> timestamp_ms, at |-> now,
                          message |-> call.message, result |-> call.result]
            /\ UNCHANGED <<client, now, wire, lmvVars, wsVars, retryVars, rateVars, pageVars>>

Sign ==
    \E method \in {<<"GET">>, <<"POST">>}, path \in Paths, salt \in Salts :
        LET call == sign(client.signer, method, path, now, salt)
        IN  /\ signed' = [call |-> "sign", method |-> method,
                          path |-> path, timestamp_ms |-> now, at |-> now,
                          message |-> call.message, result |-> call.result]
            /\ UNCHANGED <<client, now, wire, lmvVars, wsVars, retryVars, rateVars, pageVars>>

Get ==
    \E path \in Paths :
        /\ request("GET", path, <<>>)
        /\ UNCHANGED <<lmvVars, wsVars, retryVars, rateVars, pageVars>>

Post ==
    \E path \in Paths, body \in Bodies :
        /\ request("POST", path, body)
        /\ UNCHANGED <<lmvVars, wsVars, retryVars, rateVars, pageVars>>

Put ==
    \E path \in Paths, body \in Bodies :
        /\ request("PUT", path, body)
        /\ UNCHANGED <<lmvVars, wsVars, retryVars, rateVars, pageVars>>

Del ==
    \E path \in Paths :
        /\ request("DELETE", path, <<>>)
        /\ UNCHANGED <<lmvVars, wsVars, retryVars, rateVars, pageVars>>

(***************************************************************************)
(* Part III: WebSocketClient                                               *)
(*                                                                         *)
(* connect() and disconnect() are called by one caller at a time; a        *)
(* disconnect() may be called while connect() waits for the connection.    *)
(* Commands are issued by the threads of DOMAIN cmd, one or both of        *)
(* Threads.  The three handlers (on_message, on_error, on_state_change)    *)
(* are registered.                                                         *)
(***************************************************************************)
Threads == {"t1", "t2"}

\* WsConfig::url: the default, and a URL without a path
DefaultWsUrl ==
    <<"wss", "://", "api.elections.kalshi.com", "/", "trade-api", "/", "ws",
      "/", "v2">>
WsUrls == {DefaultWsUrl, <<"ws", "://", "localhost">>}

\* WsConfig::max_reconnect_attempts
DefaultMaxReconnectAttempts == 10

WsConfig ==
    [url : WsUrls, auto_reconnect : BOOLEAN,
     max_reconnect_attempts : {DefaultMaxReconnectAttempts}]

\* std::string::find from a position on: the first position at which pat
\* begins, 0 for npos (positions count from 1)
Find(s, pat, from) ==
    LET hits == {i \in from..(Len(s) - Len(pat) + 1) :
                     SubSeq(s, i, i + Len(pat) - 1) = pat}
    IN  IF hits = {} THEN 0 ELSE SetMin(hits)

\* the URL parsing of connect()
ParseUrl(url) ==
    LET use_ssl == Len(url) > 0 /\ url[1] = "wss"
        sep == Find(url, <<"://">>, 1)
        host_start == IF sep # 0 THEN sep + 1 ELSE 1
        path_start == Find(url, <<"/">>, host_start)
    IN  [use_ssl |-> use_ssl,
         host |-> IF path_start # 0
                  THEN SubSeq(url, host_start, path_start - 1)
                  ELSE SubSeq(url, host_start, Len(url)),
         path |-> IF path_start # 0
                  THEN SubSeq(url, path_start, Len(url))
                  ELSE <<"/">>,
         port |-> IF use_ssl THEN 443 ELSE 80]

\* WsImplData after construction; context is 0 for nullptr and otherwise
\* the number of the context, wsi is FALSE for nullptr
WsImplData(config) ==
    [config |-> config,
     connected |-> FALSE,
     should_stop |-> FALSE,
     next_command_id |-> 1,
     reconnect_attempts |-> 0,
     context |-> 0,
     wsi |-> FALSE,
     service_thread |-> "none",
     send_queue |-> <<>>,
     recv_buffer |-> <<>>]

\* struct Error
Error(code, message) == [ok |-> FALSE, code |-> code, message |-> message]

\* Error::network
Error_network(message) == Error("NetworkError", message)

\* lws_client_connect_info as connect() fills it; connect() sets no header
\* and ws_callback does not handle the callback that appends headers
ConnectInfo(url, context) ==
    [opened |-> TRUE,
     context |-> context,
     address |-> url.host,
     port |-> url.port,
     path |-> url.path,
     host |-> url.host,
     origin |-> url.host,
     protocol |-> "kalshi-ws",
     ssl |-> url.use_ssl,
     headers |-> <<>>]

NoHandshake == [opened |-> FALSE]

SubscriptionId(sid, channel) == [ok |-> TRUE, sid |-> sid, channel |-> channel]

\* the JSON object each builder writes; market_tickers is left out of a
\* subscribe command when the list is empty
build_subscribe_command(id, channel, market_tickers) ==
    IF market_tickers # <<>>
    THEN [id |-> id, cmd |-> "subscribe",
          params |-> [channels |-> <<channel>>, market_tickers |-> market_tickers]]
    ELSE [id |-> id, cmd |-> "subscribe",
          params |-> [channels |-> <<channel>>]]

build_unsubscribe_command(id, sid) ==
    [id |-> id, cmd |-> "unsubscribe", params |-> [sids |-> <<sid>>]]

build_update_command(id, sid, action, channel, market_tickers) ==
    [id |-> id, cmd |-> "update_subscription",
     params |-> [action |-> action, channel |-> channel, sids |-> <<sid>>,
                 market_tickers |-> market_tickers]]

\* the ticker lists and the subscription handed to the commands
TickerLists == {<<>>, <<"T1">>}
SubIds == {SubscriptionId(1, "orderbook_delta")}

(***************************************************************************)
(* Inbound text.  A JSON text is a sequence of pieces in which every       *)
(* double quote is a piece of its own and a number is a run of digit       *)
(* pieces, so that the searches of handle_message see what they see in the *)
(* characters.                                                             *)
(***************************************************************************)
Quote == "\""

\* "\"" + key + "\""
Quoted(key) == <<Quote, key, Quote>>

RECURSIVE SkipBlanks(_, _)
SkipBlanks(json, pos) ==
    IF pos <= Len(json) /\ json[pos] \in {" ", "\t"}
    THEN SkipBlanks(json, pos + 1)
    ELSE pos

RECURSIVE ParseDigits(_, _, _)
ParseDigits(json, pos, val) ==
    IF pos <= Len(json) /\ (\E v \in 0..9 : Digits[v + 1] = json[pos])
    THEN ParseDigits(json, pos + 1,
                     val * 10 + (CHOOSE v \in 0..9 : Digits[v + 1] = json[pos]))
    ELSE val

\* the lambda extract_int of handle_message
extract_int(json, key) ==
    LET pos == Find(json, Quoted(key), 1)
        colon == IF pos = 0 THEN 0 ELSE Find(json, <<":">>, pos)
    IN  IF pos = 0 \/ colon = 0 THEN 0
        ELSE ParseDigits(json, SkipBlanks(json, colon + 1), 0)

\* the lambda extract_string of handle_message
extract_string(json, key) ==
    LET pos == Find(json, Quoted(key), 1)
        colon == IF pos = 0 THEN 0 ELSE Find(json, <<":">>, pos)
        open == IF colon = 0 THEN 0 ELSE Find(json, <<Quote>>, colon)
        close == IF open = 0 THEN 0 ELSE Find(json, <<Quote>>, open + 1)
    IN  IF pos = 0 \/ colon = 0 \/ open = 0 \/ close = 0 THEN <<>>
        ELSE SubSeq(json, open + 1, close - 1)

parse_side(side_str) == IF side_str = <<"yes">> THEN "Yes" ELSE "No"

NoCallback == [callback |-> "none"]

\* WsImplData::handle_message: the callback it invokes and the value it
\* hands to it
handle_message(json) ==
    LET type_pos == Find(json, Quoted("type"), 1)
        colon == IF type_pos = 0 THEN 0 ELSE Find(json, <<":">>, type_pos)
        quote1 == IF colon = 0 THEN 0 ELSE Find(json, <<Quote>>, colon)
        quote2 == IF quote1 = 0 THEN 0 ELSE Find(json, <<Quote>>, quote1 + 1)
        msg_type == SubSeq(json, quote1 + 1, quote2 - 1)
    IN  IF type_pos = 0 \/ colon = 0 \/ quote1 = 0 \/ quote2 = 0 THEN NoCallback
        ELSE CASE msg_type = <<"error">> ->
                    [callback |-> "error",
                     value |-> IF Find(json, Quoted("msg"), 1) # 0
                               THEN [code |-> extract_int(json, "code"),
                                     message |-> extract_string(json, "message")]
                               ELSE [code |-> 0, message |-> <<>>]]
               [] msg_type = <<"orderbook_snapshot">> ->
                    [callback |-> "message",
                     value |-> [type |-> "OrderbookSnapshot",
                                sid |-> extract_int(json, "sid"),
                                seq |-> extract_int(json, "seq"),
                                market_ticker |-> extract_string(json, "market_ticker"),
                                yes |-> <<>>,
                                no |-> <<>>]]
               [] msg_type = <<"orderbook_delta">> ->
                    [callback |-> "message",
                     value |-> [type |-> "OrderbookDelta",
                                sid |-> extract_int(json, "sid"),
                                seq |-> extract_int(json, "seq"),
                                market_ticker |-> extract_string(json, "market_ticker"),
                                price |-> extract_int(json, "price"),
                                delta |-> extract_int(json, "delta"),
                                side |-> parse_side(extract_string(json, "side"))]]
               [] msg_type = <<"trade">> ->
                    [callback |-> "message",
                     value |-> [type |-> "WsTrade",
                                sid |-> extract_int(json, "sid"),
                                trade_id |-> extract_string(json, "trade_id"),
                                market_ticker |-> extract_string(json, "market_ticker"),
                                yes_price |-> extract_int(json, "yes_price"),
                                no_price |-> extract_int(json, "no_price"),
                                count |-> extract_int(json, "count"),
                                taker_side |-> parse_side(extract_string(json, "taker_side")),
                                timestamp |-> extract_int(json, "ts")]]
               [] msg_type = <<"fill">> ->
                    [callback |-> "message",
                     value |-> [type |-> "WsFill",
                                sid |-> extract_int(json, "sid"),
                                trade_id |-> extract_string(json, "trade_id"),
                                order_id |-> extract_string(json, "order_id"),
                                market_ticker |-> extract_string(json, "market_ticker"),
                                is_taker |-> extract_string(json, "is_taker") = <<"true">>,
                                side |-> parse_side(extract_string(json, "side")),
                                yes_price |-> extract_int(json, "yes_price"),
                                no_price |-> extract_int(json, "no_price"),
                                count |-> extract_int(json, "count"),
                                action |-> IF extract_string(json, "action") = <<"buy">>
                                           THEN "Buy" ELSE "Sell",
                                timestamp |-> extract_int(json, "ts")]]
               [] msg_type = <<"market_lifecycle">> ->
                    [callback |-> "message",
                     value |-> [type |-> "MarketLifecycle",
                                sid |-> extract_int(json, "sid"),
                                market_ticker |-> extract_string(json, "market_ticker"),
                                open_ts |-> extract_int(json, "open_ts"),
                                close_ts |-> extract_int(json, "close_ts"),
                                determination_ts |->
                                    IF extract_int(json, "determination_ts") > 0
                                    THEN Some(extract_int(json, "determination_ts"))
                                    ELSE Nullopt,
                                settled_ts |->
                                    IF extract_int(json, "settled_ts") > 0
                                    THEN Some(extract_int(json, "settled_ts"))
                                    ELSE Nullopt,
                                result |->
                                    IF extract_string(json, "result") # <<>>
                                    THEN Some(extract_string(json, "result"))
                                    ELSE Nullopt,
                                is_deactivated |->
                                    extract_string(json, "is_deactivated") = <<"true">>]]
               [] OTHER -> NoCallback

\* the texts the server sends: a trade, an error, the answer to a command
TradeText ==
    <<"{">> \o Quoted("type") \o <<":">> \o Quoted("trade") \o <<",">>
    \o Quoted("sid") \o <<":", "1", ",">>
    \o Quoted("count") \o <<":", "2", "}">>

ErrorText ==
    <<"{">> \o Quoted("type") \o <<":">> \o Quoted("error") \o <<",">>
    \o Quoted("msg") \o <<":", "{">> \o Quoted("code") \o <<":", "5", ",">>
    \o Quoted("message") \o <<":">> \o Quoted("bad") \o <<"}", "}">>

AckText ==
    <<"{">> \o Quoted("id") \o <<":", "1", ",">>
    \o Quoted("type") \o <<":">> \o Quoted("subscribed") \o <<"}">>

\* what one receive callback carries: a whole text, the two halves of the
\* trade, or nothing
Payloads ==
    {TradeText, ErrorText, AckText,
     SubSeq(TradeText, 1, Len(TradeText) \div 2),
     SubSeq(TradeText, Len(TradeText) \div 2 + 1, Len(TradeText)),
     <<>>}

\* final is lws_is_final_fragment
Fragments == [data : Payloads, final : BOOLEAN]

(***************************************************************************)
(* The client as a state machine                                           *)
(***************************************************************************)
\* Result<void>{}
Ok == [ok |-> TRUE]

CmdIdle == [pc |-> "idle"]

\* everything that is not part of the streaming client, the signer's record
\* excepted
outside == <<lmvVars, client, now, wire, retryVars, rateVars, pageVars>>

\* what connect() and disconnect() leave alone
ioVars == <<cmd, message_log, dispatched, written, queued, rx>>

WsStart(config, threads) ==
    /\ data = WsImplData(config)
    /\ lws = [contexts |-> 0, conn |-> "none", ended |-> {}]
    /\ pc = [connect |-> "idle", disconnect |-> "idle", by |-> "caller",
             result |-> NoCall, terminated |-> FALSE]
    /\ cmd = [t \in threads |-> CmdIdle]
    /\ handshake = NoHandshake
    /\ state_log = <<>>
    /\ error_log = <<>>
    /\ message_log = <<>>
    /\ dispatched = <<>>
    /\ written = <<>>
    /\ queued = <<>>
    /\ rx = <<>>

DefaultWsConfig ==
    [url |-> DefaultWsUrl, auto_reconnect |-> TRUE,
     max_reconnect_attempts |-> DefaultMaxReconnectAttempts]

\* a client constructed with the default WsConfig, used by one thread
WsIdle == WsStart(DefaultWsConfig, {"t1"})

\* the same client used by all threads
WsShared == WsStart(DefaultWsConfig, Threads)

WsInit == \E config \in WsConfig : WsStart(config, {"t1"})

\* WebSocketClient::connect up to the start of the service thread.  Creating
\* the context or the connection may fail.  Assigning the new thread to
\* service_thread while the previous thread is still joinable ends the
\* program (std::terminate).
Connect ==
    /\ ~pc.terminated
    /\ pc.connect = "idle"
    /\ pc.disconnect = "idle"
    /\ IF data.connected
       THEN /\ pc' = [pc EXCEPT !.result = Ok]
            /\ UNCHANGED <<data, lws, handshake, signed>>
       ELSE /\ lws.contexts < MaxSessions
            /\ \E salt \in Salts, context_ok \in BOOLEAN, wsi_ok \in BOOLEAN :
                 LET url == ParseUrl(data.config.url)
                     call == sign(client.signer, <<"GET">>, url.path, now, salt)
                     context == lws.contexts + 1
                 IN  /\ signed' = [call |-> "sign", method |-> <<"GET">>,
                                   path |-> url.path, timestamp_ms |-> now,
                                   at |-> now, message |-> call.message,
                                   result |-> call.result]
                     /\ CASE ~call.result.ok ->
                               /\ data' = [data EXCEPT !.should_stop = FALSE]
                               /\ pc' = [pc EXCEPT !.result = call.result]
                               /\ UNCHANGED <<lws, handshake>>
                          [] call.result.ok /\ ~context_ok ->
                               /\ data' = [data EXCEPT !.should_stop = FALSE,
                                                       !.context = 0]
                               /\ lws' = [lws EXCEPT !.conn = "none"]
                               /\ pc' = [pc EXCEPT !.result = Error_network(
                                           "Failed to create WebSocket context")]
                               /\ UNCHANGED handshake
                          [] call.result.ok /\ context_ok /\ ~wsi_ok ->
                               /\ data' = [data EXCEPT !.should_stop = FALSE,
                                                       !.context = 0,
                                                       !.wsi = FALSE]
                               /\ lws' = [lws EXCEPT !.contexts = context,
                                                     !.conn = "none"]
                               /\ pc' = [pc EXCEPT !.result = Error_network(
                                           "Failed to initiate WebSocket connection")]
                               /\ UNCHANGED handshake
                          [] call.result.ok /\ context_ok /\ wsi_ok ->
                               /\ handshake' = ConnectInfo(url, context)
                               /\ lws' = [lws EXCEPT !.contexts = context,
                                                     !.conn = "connecting"]
                               /\ IF data.service_thread # "none"
                                  THEN /\ data' = [data EXCEPT !.should_stop = FALSE,
                                                               !.context = context,
                                                               !.wsi = TRUE]
                                       /\ pc' = [pc EXCEPT !.terminated = TRUE]
                                  ELSE /\ data' = [data EXCEPT !.should_stop = FALSE,
                                                               !.context = context,
                                                               !.wsi = TRUE,
                                                               !.service_thread = "running"]
                                       /\ pc' = [pc EXCEPT !.connect = "waiting"]
    /\ UNCHANGED <<state_log, error_log, ioVars, outside>>

\* the wait loop of connect() ends: connected, or told to stop
ConnectReturn ==
    /\ ~pc.terminated
    /\ pc.connect = "waiting"
    /\ data.connected \/ data.should_stop
    /\ pc' = [pc EXCEPT !.connect = "idle", !.result = Ok]
    /\ UNCHANGED <<data, lws, handshake, signed, state_log, error_log, ioVars,
                   outside>>

\* WebSocketClient::disconnect up to the join
disconnect_begin(by) ==
    IF data.context = 0
    THEN /\ pc' = [pc EXCEPT !.disconnect = "returned", !.by = by]
         /\ UNCHANGED data
    ELSE /\ data' = [data EXCEPT !.should_stop = TRUE, !.connected = FALSE]
         /\ pc' = [pc EXCEPT !.disconnect = "joining", !.by = by]

\* the wait loop of connect() runs out of time and calls disconnect()
ConnectTimeout ==
    /\ ~pc.terminated
    /\ pc.connect = "waiting"
    /\ pc.disconnect = "idle"
    /\ ~data.connected /\ ~data.should_stop
    /\ disconnect_begin("connect")
    /\ UNCHANGED <<lws, handshake, signed, state_log, error_log, ioVars, outside>>

Disconnect ==
    /\ ~pc.terminated
    /\ pc.disconnect = "idle"
    /\ disconnect_begin("caller")
    /\ UNCHANGED <<lws, handshake, signed, state_log, error_log, ioVars, outside>>

\* WebSocketClient::disconnect from the join on: the service thread has
\* left its loop, the context is destroyed, the state-change callback is
\* invoked; a disconnect() called by connect() makes connect() return the
\* timeout
Join ==
    /\ ~pc.terminated
    /\ pc.disconnect = "joining"
    /\ data.service_thread # "running"
    /\ data' = [data EXCEPT !.service_thread = "none", !.context = 0,
                            !.wsi = FALSE]
    /\ lws' = [lws EXCEPT !.conn = "none", !.ended = @ \cup {data.context}]
    /\ state_log' = Append(state_log, <<data.context, FALSE>>)
    /\ pc' = IF pc.by = "connect"
             THEN [pc EXCEPT !.disconnect = "returned", !.connect = "idle",
                             !.result = Error_network("Connection timeout")]
             ELSE [pc EXCEPT !.disconnect = "returned"]
    /\ UNCHANGED <<handshake, signed, error_log, ioVars, outside>>

\* disconnect() has returned
DisconnectReturn ==
    /\ ~pc.terminated
    /\ pc.disconnect = "returned"
    /\ pc' = [pc EXCEPT !.disconnect = "idle", !.by = "caller"]
    /\ UNCHANGED <<data, lws, handshake, signed, state_log, error_log, ioVars,
                   outside>>

\* the service thread is in lws_service
InService ==
    /\ ~pc.terminated
    /\ data.service_thread = "running"
    /\ data.context # 0

\* the loop of the service thread ends
ServiceExit ==
    /\ ~pc.terminated
    /\ data.service_thread = "running"
    /\ data.should_stop \/ data.context = 0
    /\ data' = [data EXCEPT !.service_thread = "finished"]
    /\ UNCHANGED <<lws, pc, handshake, signed, state_log, error_log, ioVars,
                   outside>>

\* LWS_CALLBACK_CLIENT_ESTABLISHED
Established ==
    /\ InService
    /\ lws.conn = "connecting"
    /\ data' = [data EXCEPT !.connected = TRUE, !.reconnect_attempts = 0]
    /\ lws' = [lws EXCEPT !.conn = "established"]
    /\ state_log' = Append(state_log, <<data.context, TRUE>>)
    /\ UNCHANGED <<pc, handshake, signed, error_log, ioVars, outside>>

\* LWS_CALLBACK_CLIENT_CONNECTION_ERROR, with or without a reason text
ConnectionError ==
    /\ InService
    /\ lws.conn = "connecting"
    /\ data' = [data EXCEPT !.connected = FALSE]
    /\ lws' = [lws EXCEPT !.conn = "failed"]
    /\ \E reason \in BOOLEAN :
         error_log' = IF reason
                      THEN Append(error_log, [code |-> 0, message |-> "reason"])
                      ELSE error_log
    /\ state_log' = Append(state_log, <<data.context, FALSE>>)
    /\ UNCHANGED <<pc, handshake, signed, ioVars, outside>>

\* LWS_CALLBACK_CLIENT_CLOSED
Closed ==
    /\ InService
    /\ lws.conn = "established"
    /\ data' = [data EXCEPT !.connected = FALSE]
    /\ lws' = [lws EXCEPT !.conn = "closed"]
    /\ state_log' = Append(state_log, <<data.context, FALSE>>)
    /\ UNCHANGED <<pc, handshake, signed, error_log, ioVars, outside>>

(***************************************************************************)
(* Commands.  A command that passes its checks takes its id with           *)
(* get_next_id, builds its text, and then pushes the text with queue_send; *)
(* another thread may run between the two.                                 *)
(***************************************************************************)
\* what the command calls leave alone
callVars == <<lws, pc, handshake, signed, state_log, error_log, message_log,
              dispatched, written, rx, outside>>

Callable(t) ==
    /\ ~pc.terminated
    /\ cmd[t] = CmdIdle
    /\ data.next_command_id <= MaxCommands

\* a failing call that takes an id all the same
Fail_TakesId(t, call, error) ==
    /\ cmd' = [cmd EXCEPT ![t] = [pc |-> "returned", call |-> call,
                                  result |-> error]]
    /\ data' = [data EXCEPT !.next_command_id = @ + 1]

\* the call returns an error before it takes an id
Fail(t, call, error) ==
    /\ cmd' = [cmd EXCEPT ![t] = [pc |-> "returned", call |-> call,
                                  result |-> error]]
    /\ UNCHANGED data

\* WsImplData::get_next_id and the build of the command text
Issue(t, call, msg, result) ==
    /\ data' = [data EXCEPT !.next_command_id = @ + 1]
    /\ cmd' = [cmd EXCEPT ![t] = [pc |-> "queue_send", call |-> call,
                                  msg |-> msg, result |-> result]]

SubscribeOrderbook ==
    \E t \in DOMAIN cmd, market_tickers \in TickerLists :
        LET call == [op |-> "subscribe_orderbook", market_tickers |-> market_tickers]
            id == data.next_command_id
        IN  /\ Callable(t)
            /\ IF ~data.connected
               THEN Fail(t, call, Error_network("Not connected"))
               ELSE IF market_tickers = <<>>
               THEN Fail(t, call, Error("InvalidRequest", "market_tickers required"))
               ELSE Issue(t, call,
                          build_subscribe_command(id, "orderbook_delta", market_tickers),
                          SubscriptionId(id, "orderbook_delta"))
            /\ UNCHANGED <<queued, callVars>>

SubscribeTrades ==
    \E t \in DOMAIN cmd, market_tickers \in TickerLists :
        LET call == [op |-> "subscribe_trades", market_tickers |-> market_tickers]
            id == data.next_command_id
        IN  /\ Callable(t)
            /\ IF ~data.connected
               THEN Fail(t, call, Error_network("Not connected"))
               ELSE Issue(t, call,
                          build_subscribe_command(id, "trade", market_tickers),
                          SubscriptionId(id, "trade"))
            /\ UNCHANGED <<queued, callVars>>

SubscribeFills ==
    \E t \in DOMAIN cmd, market_tickers \in TickerLists :
        LET call == [op |-> "subscribe_fills", market_tickers |-> market_tickers]
            id == data.next_command_id
        IN  /\ Callable(t)
            /\ IF ~data.connected
               THEN Fail(t, call, Error_network("Not connected"))
               ELSE Issue(t, call,
                          build_subscribe_command(id, "fill", market_tickers),
                          SubscriptionId(id, "fill"))
            /\ UNCHANGED <<queued, callVars>>

SubscribeLifecycle ==
    \E t \in DOMAIN cmd :
        LET call == [op |-> "subscribe_lifecycle", market_tickers |-> <<>>]
            id == data.next_command_id
        IN  /\ Callable(t)
            /\ IF ~data.connected
               THEN Fail(t, call, Error_network("Not connected"))
               ELSE Issue(t, call,
                          build_subscribe_command(id, "market_lifecycle", <<>>),
                          SubscriptionId(id, "market_lifecycle"))
            /\ UNCHANGED <<queued, callVars>>

Unsubscribe ==
    \E t \in DOMAIN cmd, sub_id \in SubIds :
        LET call == [op |-> "unsubscribe", market_tickers |-> <<>>]
            id == data.next_command_id
        IN  /\ Callable(t)
            /\ IF ~data.connected
               THEN Fail(t, call, Error_network("Not connected"))
               ELSE Issue(t, call,
                          build_unsubscribe_command(id, sub_id.sid),
                          Ok)
            /\ UNCHANGED <<queued, callVars>>

AddMarkets ==
    \E t \in DOMAIN cmd, sub_id \in SubIds, market_tickers \in TickerLists :
        LET call == [op |-> "add_markets", market_tickers |-> market_tickers]
            id == data.next_command_id
        IN  /\ Callable(t)
            /\ IF ~data.connected
               THEN Fail(t, call, Error_network("Not connected"))
               ELSE IF market_tickers = <<>>
               THEN Fail(t, call, Error("InvalidRequest", "market_tickers required"))
               ELSE Issue(t, call,
                          build_update_command(id, sub_id.sid, "add_markets",
                                               sub_id.channel, market_tickers),
                          Ok)
            /\ UNCHANGED <<queued, callVars>>

RemoveMarkets ==
    \E t \in DOMAIN cmd, sub_id \in SubIds, market_tickers \in TickerLists :
        LET call == [op |-> "remove_markets", market_tickers |-> market_tickers]
            id == data.next_command_id
        IN  /\ Callable(t)
            /\ IF ~data.connected
               THEN Fail(t, call, Error_network("Not connected"))
               ELSE IF market_tickers = <<>>
               THEN Fail(t, call, Error("InvalidRequest", "market_tickers required"))
               ELSE Issue(t, call,
                          build_update_command(id, sub_id.sid, "delete_markets",
                                               sub_id.channel, market_tickers),
                          Ok)
            /\ UNCHANGED <<queued, callVars>>

\* WsImplData::queue_send, and the return of the command
QueueSend ==
    \E t \in DOMAIN cmd :
        /\ ~pc.terminated
        /\ cmd[t].pc = "queue_send"
        /\ data' = [data EXCEPT !.send_queue = Append(@, cmd[t].msg)]
        /\ queued' = Append(queued, cmd[t].msg)
        /\ cmd' = [cmd EXCEPT ![t] = [pc |-> "returned", call |-> cmd[t].call,
                                      result |-> cmd[t].result]]
        /\ UNCHANGED callVars

\* the caller has the result of its command
CommandReturn ==
    \E t \in DOMAIN cmd :
        /\ ~pc.terminated
        /\ cmd[t].pc = "returned"
        /\ cmd' = [cmd EXCEPT ![t] = CmdIdle]
        /\ UNCHANGED <<data, queued, callVars>>

\* a writable event that keeps a command whose write failed at the head of
\* the queue
Writeable_KeepsFailed ==
    /\ InService
    /\ lws.conn = "established"
    /\ data.send_queue # <<>>
    /\ \E complete \in BOOLEAN :
         LET msg == Head(data.send_queue)
         IN  /\ data' = IF complete THEN [data EXCEPT !.send_queue = Tail(@)]
                        ELSE data
             /\ written' = Append(written, [msg |-> msg, complete |-> complete])
             /\ error_log' = IF complete THEN error_log
                             ELSE Append(error_log,
                                    [code |-> -1,
                                     message |-> "Failed to write to WebSocket"])
    /\ UNCHANGED <<lws, pc, cmd, handshake, signed, state_log, message_log,
                   dispatched, queued, rx, outside>>

\* LWS_CALLBACK_CLIENT_WRITEABLE with a command waiting: lws_write takes the
\* whole text or less
Writeable ==
    /\ InService
    /\ lws.conn = "established"
    /\ data.send_queue # <<>>
    /\ \E complete \in BOOLEAN :
         LET msg == Head(data.send_queue)
         IN  /\ data' = [data EXCEPT !.send_queue = Tail(@)]
             /\ written' = Append(written, [msg |-> msg, complete |-> complete])
             /\ error_log' = IF complete THEN error_log
                             ELSE Append(error_log,
                                    [code |-> -1,
                                     message |-> "Failed to write to WebSocket"])
    /\ UNCHANGED <<lws, pc, cmd, handshake, signed, state_log, message_log,
                   dispatched, queued, rx, outside>>

\* what the callbacks have been called with after handle_message(json)
Dispatch(json) ==
    LET call == handle_message(json)
    IN  /\ dispatched' = Append(dispatched, json)
        /\ message_log' = IF call.callback = "message"
                          THEN Append(message_log, call.value)
                          ELSE message_log
        /\ error_log' = IF call.callback = "error"
                        THEN Append(error_log, call.value)
                        ELSE error_log

\* LWS_CALLBACK_CLIENT_RECEIVE
Receive ==
    /\ InService
    /\ lws.conn = "established"
    /\ Len(rx) < MaxFragments
    /\ \E fragment \in Fragments :
        /\ rx' = Append(rx, fragment)
        /\ IF fragment.data # <<>>
           THEN IF fragment.final
                THEN /\ Dispatch(data.recv_buffer \o fragment.data)
                     /\ data' = [data EXCEPT !.recv_buffer = <<>>]
                ELSE /\ data' = [data EXCEPT !.recv_buffer = @ \o fragment.data]
                     /\ UNCHANGED <<dispatched, message_log, error_log>>
           ELSE UNCHANGED <<data, dispatched, message_log, error_log>>
    /\ UNCHANGED <<lws, pc, cmd, handshake, signed, state_log, written, queued,
                   outside>>

(***************************************************************************)
(* The view fed by the connection: on_message is registered with           *)
(* view.process_message, as in examples/get_daily_temp.cpp.                *)
(***************************************************************************)
\* the text of a list of price levels: [[price,quantity],...]
RECURSIVE LevelsText(_)
LevelsText(entries) ==
    IF entries = <<>> THEN <<>>
    ELSE <<"[">> \o to_string(Head(entries).price_cents) \o <<",">>
         \o to_string(Head(entries).quantity) \o <<"]">>
         \o (IF Len(entries) > 1 THEN <<",">> ELSE <<>>)
         \o LevelsText(Tail(entries))

side_text(side) == IF side = "Yes" THEN "yes" ELSE "no"

\* the frame the server sends for a snapshot or a delta of subscription 1
FrameText(msg) ==
    IF msg.type = "OrderbookSnapshot"
    THEN <<"{">> \o Quoted("type") \o <<":">> \o Quoted("orderbook_snapshot")
         \o <<",">> \o Quoted("sid") \o <<":", "1", ",">>
         \o Quoted("seq") \o <<":">> \o to_string(msg.seq) \o <<",">>
         \o Quoted("msg") \o <<":", "{">>
         \o Quoted("market_ticker") \o <<":">> \o Quoted(msg.market_ticker)
         \o <<",">> \o Quoted("yes") \o <<":", "[">> \o LevelsText(msg.yes)
         \o <<"]", ",">> \o Quoted("no") \o <<":", "[">> \o LevelsText(msg.no)
         \o <<"]", "}", "}">>
    ELSE <<"{">> \o Quoted("type") \o <<":">> \o Quoted("orderbook_delta")
         \o <<",">> \o Quoted("sid") \o <<":", "1", ",">>
         \o Quoted("seq") \o <<":">> \o to_string(msg.seq) \o <<",">>
         \o Quoted("msg") \o <<":", "{">>
         \o Quoted("market_ticker") \o <<":">> \o Quoted(msg.market_ticker)
         \o <<",">> \o Quoted("price") \o <<":">> \o to_string(msg.price)
         \o <<",">> \o Quoted("delta") \o <<":">> \o to_string(msg.delta)
         \o <<",">> \o Quoted("side") \o <<":">> \o Quoted(side_text(msg.side))
         \o <<"}", "}">>

\* what a snapshot of the feed carries on one side: nothing, or one level
\* at the lowest price
FeedLevels ==
    {<<>>} \cup {<<entry>> : entry \in {e \in OrderBookEntry :
                                          /\ e.price_cents = SetMin(Prices)
                                          /\ e.quantity = SetMax(SnapQtys)}}

\* the snapshots and deltas the server sends, all with the first sequence
\* number; a delta adds or takes one contract at the lowest price
FeedMessages ==
    [type : {"OrderbookSnapshot"}, market_ticker : Tickers, seq : {SetMin(Seqs)},
     yes : FeedLevels, no : FeedLevels]
    \cup {delta \in OrderbookDelta :
            /\ delta.seq = SetMin(Seqs)
            /\ delta.price = SetMin(Prices)
            /\ delta.delta \in {-1, 1}}

\* LWS_CALLBACK_CLIENT_RECEIVE of a whole frame, with the view as the
\* message handler
FeedView ==
    /\ InService
    /\ lws.conn = "established"
    /\ Len(rx) < MaxFragments
    /\ \E msg \in FeedMessages :
         LET json == data.recv_buffer \o FrameText(msg)
             call == handle_message(json)
         IN  /\ rx' = Append(rx, [data |-> FrameText(msg), final |-> TRUE])
             /\ Dispatch(json)
             /\ data' = [data EXCEPT !.recv_buffer = <<>>]
             /\ IF call.callback = "message"
                THEN /\ states_' = process_message(states_, call.value)
                     /\ last' = call.value
                ELSE UNCHANGED <<states_, last>>
    /\ UNCHANGED <<lws, pc, cmd, handshake, signed, state_log, written, queued,
                   client, now, wire, retryVars, rateVars, pageVars>>

(***************************************************************************)
(* Part IV: with_retry                                                     *)
(***************************************************************************)
\* RetryPolicy; the delays are in milliseconds, jitter_factor in percent
RetryPolicy ==
    [max_attempts : 0..MaxAttempts,
     initial_delay : {100},
     max_delay : {250, 10000},
     backoff_multiplier : {1, 2},
     jitter_factor : {0, 10},
     retry_on_network_error : BOOLEAN,
     retry_on_rate_limit : BOOLEAN,
     retry_on_server_error : BOOLEAN]

\* what the operation handed to with_retry returns: a response with a
\* status code, or an error
StatusCodes == {200, 404, 429, 500, 600}
ErrorCodes == {"NetworkError", "SigningError"}

HttpResponse(status_code) == [ok |-> TRUE, status_code |-> status_code]

Results ==
    {HttpResponse(status_code) : status_code \in StatusCodes}
    \cup {Error(code, "failed") : code \in ErrorCodes}

\* a 429 is retried whatever retry_on_rate_limit says
should_retry_response_AnyRateLimit(response, policy) ==
    IF response.status_code = 429 THEN TRUE
    ELSE IF policy.retry_on_server_error /\ response.status_code >= 500 THEN TRUE
    ELSE FALSE

\* should_retry(const HttpResponse&, const RetryPolicy&)
should_retry_response(response, policy) ==
    IF policy.retry_on_rate_limit /\ response.status_code = 429 THEN TRUE
    ELSE IF policy.retry_on_server_error /\ response.status_code >= 500 THEN TRUE
    ELSE FALSE

\* variant: every error is retried
should_retry_error_AnyCode(error, policy) ==
    IF policy.retry_on_network_error THEN TRUE ELSE FALSE

\* should_retry(const Error&, const RetryPolicy&)
should_retry_error(error, policy) ==
    IF policy.retry_on_network_error /\ error.code = "NetworkError" THEN TRUE
    ELSE FALSE

RECURSIVE Backoff(_, _, _, _)
\* the loop of calculate_retry_delay
Backoff(delay_ms, i, attempt, policy) ==
    IF i < attempt
    THEN Backoff(delay_ms * policy.backoff_multiplier, i + 1, attempt, policy)
    ELSE delay_ms

\* a delay that is not capped at max_delay
calculate_retry_delay_NoCap(attempt, policy) ==
    LET delay_ms == Backoff(policy.initial_delay, 1, attempt, policy)
    IN  IF policy.jitter_factor > 0
        THEN {(delay_ms * (100 - policy.jitter_factor)) \div 100,
              (delay_ms * (100 + policy.jitter_factor)) \div 100}
        ELSE {delay_ms}

\* calculate_retry_delay: the draws of the jitter are its two ends
calculate_retry_delay(attempt, policy) ==
    LET delay_ms == Backoff(policy.initial_delay, 1, attempt, policy)
        capped == IF delay_ms < policy.max_delay THEN delay_ms ELSE policy.max_delay
    IN  IF policy.jitter_factor > 0
        THEN {(capped * (100 - policy.jitter_factor)) \div 100,
              (capped * (100 + policy.jitter_factor)) \div 100}
        ELSE {capped}

RetryIdle == retry = [pc |-> "idle"]

\* everything but the with_retry call
notRetry == <<lmvVars, signVars, wsVars, rateVars, pageVars>>

\* with_retry is called: the loop is entered, or max_attempts admits no
\* attempt
WithRetry ==
    /\ retry = [pc |-> "idle"]
    /\ \E policy \in RetryPolicy :
         retry' = IF 1 <= policy.max_attempts
                  THEN [pc |-> "operation", policy |-> policy, attempt |-> 1,
                        calls |-> 0, sleeps |-> 0, total_delay |-> 0,
                        delays |-> <<>>]
                  ELSE [pc |-> "returned", policy |-> policy, attempt |-> 1,
                        calls |-> 0, sleeps |-> 0, total_delay |-> 0,
                        delays |-> <<>>,
                        value |-> Error_network("Max retry attempts exceeded")]
    /\ UNCHANGED notRetry

\* a pass of the loop that retries whatever the number of attempts made
Attempt_AnyAttempt ==
    /\ retry.pc = "operation"
    /\ \E result \in Results :
         LET should_retry == IF result.ok
                             THEN should_retry_response(result, retry.policy)
                             ELSE should_retry_error(result, retry.policy)
             again == should_retry
         IN  IF again
             THEN \E delay \in calculate_retry_delay(retry.attempt, retry.policy) :
                    retry' = [pc |-> "sleep", policy |-> retry.policy,
                              attempt |-> retry.attempt,
                              calls |-> retry.calls + 1,
                              sleeps |-> retry.sleeps,
                              total_delay |-> retry.total_delay + delay,
                              delays |-> Append(retry.delays, delay),
                              result |-> result,
                              should_retry |-> should_retry, delay |-> delay]
             ELSE retry' = [pc |-> "returned", policy |-> retry.policy,
                            attempt |-> retry.attempt,
                            calls |-> retry.calls + 1,
                            sleeps |-> retry.sleeps,
                            total_delay |-> retry.total_delay,
                            delays |-> retry.delays,
                            result |-> result,
                            should_retry |-> should_retry, value |-> result]
    /\ UNCHANGED notRetry

\* one pass of the loop: the operation is invoked, and its result is
\* returned or a sleep is begun
Attempt ==
    /\ retry.pc = "operation"
    /\ \E result \in Results :
         LET should_retry == IF result.ok
                             THEN should_retry_response(result, retry.policy)
                             ELSE should_retry_error(result, retry.policy)
             again == should_retry /\ retry.attempt < retry.policy.max_attempts
         IN  IF again
             THEN \E delay \in calculate_retry_delay(retry.attempt, retry.policy) :
                    retry' = [pc |-> "sleep", policy |-> retry.policy,
                              attempt |-> retry.attempt,
                              calls |-> retry.calls + 1,
                              sleeps |-> retry.sleeps,
                              total_delay |-> retry.total_delay + delay,
                              delays |-> Append(retry.delays, delay),
                              result |-> result,
                              should_retry |-> should_retry, delay |-> delay]
             ELSE retry' = [pc |-> "returned", policy |-> retry.policy,
                            attempt |-> retry.attempt,
                            calls |-> retry.calls + 1,
                            sleeps |-> retry.sleeps,
                            total_delay |-> retry.total_delay,
                            delays |-> retry.delays,
                            result |-> result,
                            should_retry |-> should_retry, value |-> result]
    /\ UNCHANGED notRetry

\* std::this_thread::sleep_for(delay) returns and the loop goes on with the
\* next attempt, or ends because no attempt is left
Sleep ==
    /\ retry.pc = "sleep"
    /\ retry' = IF retry.attempt + 1 <= retry.policy.max_attempts
                THEN [pc |-> "operation", policy |-> retry.policy,
                      attempt |-> retry.attempt + 1, calls |-> retry.calls,
                      sleeps |-> retry.sleeps + 1,
                      total_delay |-> retry.total_delay,
                      delays |-> retry.delays]
                ELSE [pc |-> "returned", policy |-> retry.policy,
                      attempt |-> retry.attempt + 1, calls |-> retry.calls,
                      sleeps |-> retry.sleeps + 1,
                      total_delay |-> retry.total_delay,
                      delays |-> retry.delays, result |-> retry.result,
                      value |-> Error_network("Max retry attempts exceeded")]
    /\ UNCHANGED notRetry

\* the caller has the result
RetryReturn ==
    /\ retry.pc = "returned"
    /\ retry' = [pc |-> "idle"]
    /\ UNCHANGED notRetry

(***************************************************************************)
(* Part V: RateLimiter                                                     *)
(*                                                                         *)
(* The limiter is constructed at time 0 of the steady clock.  The threads  *)
(* of Threads call try_acquire, acquire and acquire_for.                   *)
(***************************************************************************)
\* RateLimiter::Config; the times are in milliseconds
RateConfig ==
    [max_tokens : {MaxTokens},
     refill_interval : {1000},
     initial_tokens : 0..MaxTokens,
     max_wait : {Nullopt, Some(1500)}]

\* the max_wait handed to acquire_for
MaxWaits == {0, 1500}

\* the calls followed: as many as the bucket can hold
MaxCalls == MaxTokens

\* static_cast<std::uint16_t>
Uint16(v) == v % 65536

\* RateLimiter::RateLimiter
RateLimiter(config) ==
    [config_ |-> config,
     mutex_ |-> "free",
     tokens_ |-> config.initial_tokens,
     last_refill_ |-> 0]

\* the default Config: 10 tokens at most, 10 to begin with
DefaultRateConfig ==
    [max_tokens |-> 10, refill_interval |-> 1000, initial_tokens |-> 10,
     max_wait |-> Nullopt]

\* a refill that forgets when it last refilled
refill_KeepsLastRefill(l, clock) ==
    LET elapsed == clock - l.last_refill_
    IN  IF elapsed >= l.config_.refill_interval
        THEN LET intervals == elapsed \div l.config_.refill_interval
                 new_tokens == l.tokens_ + intervals
             IN  [l EXCEPT !.tokens_ =
                      Uint16(IF new_tokens < l.config_.max_tokens
                             THEN new_tokens ELSE l.config_.max_tokens)]
        ELSE l

\* RateLimiter::refill at the time clock
refill(l, clock) ==
    LET elapsed == clock - l.last_refill_
    IN  IF elapsed >= l.config_.refill_interval
        THEN LET intervals == elapsed \div l.config_.refill_interval
                 new_tokens == l.tokens_ + intervals
             IN  [l EXCEPT !.tokens_ =
                      Uint16(IF new_tokens < l.config_.max_tokens
                             THEN new_tokens ELSE l.config_.max_tokens),
                           !.last_refill_ = clock]
        ELSE l

AcqIdle == [pc |-> "idle"]

\* no window of the bucket has been opened yet
RateStart(config, threads) ==
    /\ limiter = RateLimiter(config)
    /\ rate = [clock |-> 0,
               acq |-> [t \in threads |-> AcqIdle],
               calls |-> 0,
               granted |-> 0,
               window |-> [n |-> config.initial_tokens, tries |-> 0, wins |-> 0]]

\* a limiter with the default Config that nobody calls
RateIdle == RateStart(DefaultRateConfig, {})

RateInit == \E config \in RateConfig : RateStart(config, Threads)

\* everything but the limiter
notRate == <<lmvVars, signVars, wsVars, retryVars, pageVars>>

\* the steady clock advances by half an interval or by a whole one
SteadyTick ==
    /\ \E d \in {limiter.config_.refill_interval \div 2,
                 limiter.config_.refill_interval} :
         /\ rate.clock + d <= MaxIntervals * limiter.config_.refill_interval
         /\ rate' = [rate EXCEPT !.clock = @ + d]
    /\ UNCHANGED <<limiter, notRate>>

\* a deadline that never comes
NoDeadline == Nullopt

\* the call of acquire_for begins its loop, or its deadline has passed
\* already
acquire_for(t, op, max_wait) ==
    LET deadline == rate.clock + max_wait
    IN  rate' = [rate EXCEPT !.calls = @ + 1, !.acq[t] =
                    IF rate.clock < deadline
                    THEN [pc |-> "try", op |-> op, deadline |-> Some(deadline)]
                    ELSE [pc |-> "returned", op |-> op, result |-> FALSE]]

\* thread t can begin a call
CanCall(t) == rate.acq[t].pc = "idle" /\ rate.calls < MaxCalls

\* a thread calls try_acquire
CallTryAcquire ==
    /\ \E t \in DOMAIN rate.acq :
         /\ CanCall(t)
         /\ rate' = [rate EXCEPT !.calls = @ + 1,
                                 !.acq[t] = [pc |-> "try", op |-> "try_acquire",
                                             deadline |-> NoDeadline]]
    /\ UNCHANGED <<limiter, notRate>>

\* a thread calls acquire: acquire_for when the Config has a max_wait, the
\* loop without an end otherwise
CallAcquire ==
    /\ \E t \in DOMAIN rate.acq :
         /\ CanCall(t)
         /\ IF limiter.config_.max_wait # Nullopt
            THEN acquire_for(t, "acquire", limiter.config_.max_wait[1])
            ELSE rate' = [rate EXCEPT !.calls = @ + 1,
                                      !.acq[t] = [pc |-> "try", op |-> "acquire",
                                                  deadline |-> NoDeadline]]
    /\ UNCHANGED <<limiter, notRate>>

\* a thread calls acquire_for
CallAcquireFor ==
    /\ \E t \in DOMAIN rate.acq, max_wait \in MaxWaits :
         /\ CanCall(t)
         /\ acquire_for(t, "acquire_for", max_wait)
    /\ UNCHANGED <<limiter, notRate>>

\* a thread that takes the mutex without waiting for it
lock_guard_NoWait(l) == TRUE

\* std::lock_guard lock(mutex_): the mutex can be taken
lock_guard(l) == l.mutex_ = "free"

\* RateLimiter::try_acquire up to the test of tokens_: the mutex is taken
\* and the bucket refilled
TryAcquireEnter ==
    /\ \E t \in DOMAIN rate.acq :
         /\ rate.acq[t].pc = "try"
         /\ lock_guard(limiter)
         /\ LET refilled == refill(limiter, rate.clock)
            IN  /\ limiter' = [refilled EXCEPT !.mutex_ = t]
                /\ rate' = [rate EXCEPT
                       !.acq[t] = [pc |-> "locked", op |-> rate.acq[t].op,
                                   deadline |-> rate.acq[t].deadline,
                                   ok |-> refilled.tokens_ > 0],
                       !.window = IF refilled.last_refill_ # limiter.last_refill_
                                  THEN [n |-> refilled.tokens_, tries |-> 0,
                                        wins |-> 0]
                                  ELSE @]
    /\ UNCHANGED notRate

\* how long the loop of acquire or acquire_for sleeps after a try that
\* failed
sleep_time(deadline) ==
    LET step == limiter.config_.refill_interval \div 10
    IN  IF deadline = NoDeadline THEN step
        ELSE IF step < deadline[1] - rate.clock THEN step
        ELSE deadline[1] - rate.clock

\* RateLimiter::try_acquire from the test of tokens_ on, and what the loop
\* of acquire or acquire_for does with the answer
TryAcquireLeave ==
    /\ \E t \in DOMAIN rate.acq :
         LET call == rate.acq[t]
             after == IF call.op = "try_acquire" \/ call.ok
                      THEN [pc |-> "returned", op |-> call.op, result |-> call.ok]
                      ELSE IF sleep_time(call.deadline) > 0
                      THEN [pc |-> "sleep", op |-> call.op,
                            deadline |-> call.deadline,
                            wake |-> rate.clock + sleep_time(call.deadline)]
                      ELSE [pc |-> "returned", op |-> call.op, result |-> FALSE]
         IN  /\ call.pc = "locked"
             /\ limiter' = [limiter EXCEPT
                               !.tokens_ = IF call.ok THEN @ - 1 ELSE @,
                               !.mutex_ = "free"]
             /\ rate' = [rate EXCEPT
                    !.acq[t] = after,
                    !.granted = IF call.ok THEN @ + 1 ELSE @,
                    !.window.tries = @ + 1,
                    !.window.wins = IF call.ok THEN @ + 1 ELSE @]
    /\ UNCHANGED notRate

\* std::this_thread::sleep_for returns: the loop tries again, or
\* acquire_for sees that its deadline has passed
Wake ==
    /\ \E t \in DOMAIN rate.acq :
         LET call == rate.acq[t]
         IN  /\ call.pc = "sleep"
             /\ rate.clock >= call.wake
             /\ rate' = [rate EXCEPT !.acq[t] =
                    IF call.deadline = NoDeadline \/ rate.clock < call.deadline[1]
                    THEN [pc |-> "try", op |-> call.op, deadline |-> call.deadline]
                    ELSE [pc |-> "returned", op |-> call.op, result |-> FALSE]]
    /\ UNCHANGED <<limiter, notRate>>

\* the caller has the answer
AcquireReturn ==
    /\ \E t \in DOMAIN rate.acq :
         /\ rate.acq[t].pc = "returned"
         /\ rate' = [rate EXCEPT !.acq[t] = AcqIdle]
    /\ UNCHANGED <<limiter, notRate>>

(***************************************************************************)
(* Part VI: PaginatedIterator                                              *)
(*                                                                         *)
(* The fetch function is the caller's: it may return any page or an error. *)
(* A cursor value is a string, the empty sequence being the empty string.  *)
(***************************************************************************)
\* Cursor::value
CursorValues == {<<>>} \cup {to_string(k) : k \in 1..MaxPages}

Cursor == [value : CursorValues]

\* Cursor::empty
empty(cursor) == cursor.value = <<>>

\* the default page_size of PaginatedIterator
DefaultPageSize == 100

\* PaginatedResponse<T>::has_more
response_has_more(response) ==
    response.next_cursor # Nullopt /\ ~empty(response.next_cursor[1])

\* what the n-th call of the fetch function may return: an error, or a page
\* holding the item n with any next_cursor
FetchResults(n) ==
    {Error("NetworkError", "failed")}
    \cup [ok : {TRUE}, items : {<<n>>},
          next_cursor : {Nullopt} \cup {Some(c) : c \in Cursor}]

\* the fetches followed
MaxFetches == MaxPages + 1

\* PaginatedIterator after construction
PaginatedIterator == [current_cursor_ |-> Nullopt, has_more_ |-> TRUE]

\* the PaginationParams next_page hands to the fetch function
PaginationParams(it) ==
    [limit |-> Some(DefaultPageSize), cursor |-> it.current_cursor_]

\* a next_page that forgets its cursor when the fetch fails
next_page_ForgetsCursor(it, result) ==
    IF ~result.ok
    THEN [it |-> [it EXCEPT !.current_cursor_ = Nullopt], value |-> result]
    ELSE [it |-> [current_cursor_ |-> result.next_cursor,
                  has_more_ |-> response_has_more(result)],
          value |-> [ok |-> TRUE, items |-> result.items]]

\* PaginatedIterator::next_page, given what the fetch function returned:
\* the iterator afterwards and the value returned
next_page(it, result) ==
    IF ~result.ok
    THEN [it |-> it, value |-> result]
    ELSE [it |-> [current_cursor_ |-> result.next_cursor,
                  has_more_ |-> response_has_more(result)],
          value |-> [ok |-> TRUE, items |-> result.items]]

\* an iterator that has not been called yet
PageIdle ==
    /\ iter = PaginatedIterator
    /\ paging = [pc |-> "idle", fetched |-> <<>>]

\* everything but the iterator
notPage == <<lmvVars, signVars, wsVars, retryVars, rateVars>>

\* the fetch function is called once more
Fetched(result) ==
    Append(paging.fetched, [params |-> PaginationParams(iter), result |-> result])

\* the caller calls next_page
NextPage ==
    /\ paging.pc = "idle"
    /\ Len(paging.fetched) < MaxFetches
    /\ \E result \in FetchResults(Len(paging.fetched) + 1) :
         LET call == next_page(iter, result)
         IN  /\ iter' = call.it
             /\ paging' = [pc |-> "returned", op |-> "next_page",
                           fetched |-> Fetched(result), value |-> call.value]
    /\ UNCHANGED notPage

\* the caller calls fetch_all
FetchAll ==
    /\ paging.pc = "idle"
    /\ Len(paging.fetched) < MaxFetches
    /\ paging' = [pc |-> "fetch_all", op |-> "fetch_all",
                  fetched |-> paging.fetched, from |-> Len(paging.fetched),
                  all_items |-> <<>>]
    /\ UNCHANGED <<iter, notPage>>

\* one pass of the loop of fetch_all
FetchAllPage ==
    /\ paging.pc = "fetch_all"
    /\ Len(paging.fetched) < MaxFetches
    /\ \E result \in FetchResults(Len(paging.fetched) + 1) :
         LET call == next_page(iter, result)
             all_items == paging.all_items \o call.value.items
         IN  /\ iter' = call.it
             /\ paging' =
                  IF ~call.value.ok
                  THEN [pc |-> "returned", op |-> "fetch_all",
                        fetched |-> Fetched(result), from |-> paging.from,
                        value |-> call.value]
                  ELSE IF call.it.has_more_
                  THEN [paging EXCEPT !.fetched = Fetched(result),
                                      !.all_items = all_items]
                  ELSE [pc |-> "returned", op |-> "fetch_all",
                        fetched |-> Fetched(result), from |-> paging.from,
                        value |-> [ok |-> TRUE, items |-> all_items]]
    /\ UNCHANGED notPage

\* the caller has the result
PageReturn ==
    /\ paging.pc = "returned"
    /\ paging' = [pc |-> "idle", fetched |-> paging.fetched]
    /\ UNCHANGED <<iter, notPage>>

(***************************************************************************)
(* Part I: the view as a state machine                                     *)
(***************************************************************************)
LmvInit ==
    /\ states_ = EmptyMap
    /\ last = NoMessage

\* the snapshots whose books stay within the modelled quantity range
BoundedSnapshots ==
    {snap \in OrderbookSnapshot : WithinBounds(handle_snapshot(EmptyMap, snap))}

\* process_message runs one message at a time (mutex_): it is entered when
\* no call is in progress
Snapshot ==
    /\ last = NoMessage
    /\ \E snap \in BoundedSnapshots :
        /\ states_' = process_message(states_, snap)
        /\ last' = snap
        /\ UNCHANGED <<signVars, wsVars, retryVars, rateVars, pageVars>>

Delta ==
    /\ last = NoMessage
    /\ \E delta \in OrderbookDelta :
        /\ WithinBounds(process_message(states_, delta))
        /\ states_' = process_message(states_, delta)
        /\ last' = delta
        /\ UNCHANGED <<signVars, wsVars, retryVars, rateVars, pageVars>>

Trade ==
    /\ last = NoMessage
    /\ \E trade \in WsTrade :
        /\ states_' = process_message(states_, trade)
        /\ last' = trade
        /\ UNCHANGED <<signVars, wsVars, retryVars, rateVars, pageVars>>

Ignored ==
    /\ last = NoMessage
    /\ \E msg \in OtherMessage :
        /\ states_' = process_message(states_, msg)
        /\ last' = msg
        /\ UNCHANGED <<signVars, wsVars, retryVars, rateVars, pageVars>>

RegisterTicker ==
    /\ last = NoMessage
    /\ \E ticker \in Tickers :
        /\ states_' = register_ticker(states_, ticker)
        /\ last' = [type |-> "register_ticker", market_ticker |-> ticker]
        /\ UNCHANGED <<signVars, wsVars, retryVars, rateVars, pageVars>>

\* the call returns and its argument goes out of scope
Return ==
    /\ last # NoMessage
    /\ last' = NoMessage
    /\ UNCHANGED <<states_, signVars, wsVars, retryVars, rateVars, pageVars>>

vars == <<states_, last, client, now, signed, wire, data, lws, pc, cmd,
          handshake, state_log, error_log, message_log, dispatched, written,
          queued, rx, retry, limiter, rate, iter, paging>>

Init == LmvInit /\ SignIdle /\ WsIdle /\ RetryIdle /\ RateIdle /\ PageIdle

Next ==
    \/ Snapshot
    \/ Delta
    \/ Trade
    \/ Ignored
    \/ RegisterTicker
    \/ Return

Spec == Init /\ [][Next]_vars

(***************************************************************************)
(* The same view when only its content is observed: every message is fed   *)
(* through process_message and the message itself is not recorded.         *)
(***************************************************************************)
Feed ==
    \E msg \in BoundedSnapshots \cup OrderbookDelta \cup WsTrade \cup OtherMessage :
        /\ WithinBounds(process_message(states_, msg))
        /\ states_' = process_message(states_, msg)
        /\ UNCHANGED <<last, signVars, wsVars, retryVars, rateVars, pageVars>>

Register ==
    \E ticker \in Tickers :
        /\ states_' = register_ticker(states_, ticker)
        /\ UNCHANGED <<last, signVars, wsVars, retryVars, rateVars, pageVars>>

NextView ==
    \/ Feed
    \/ Register

SpecView == Init /\ [][NextView]_vars

(***************************************************************************)
(* The signer and the HTTP client                                          *)
(***************************************************************************)
InitSign == LmvInit /\ SignInit /\ WsIdle /\ RetryIdle /\ RateIdle /\ PageIdle

NextSign ==
    \/ Tick
    \/ SignWithTimestamp
    \/ Sign
    \/ Get
    \/ Post
    \/ Put
    \/ Del

SpecSign == InitSign /\ [][NextSign]_vars

(***************************************************************************)
(* The streaming client: connecting and disconnecting                      *)
(***************************************************************************)
\* a signer whose key signs, or one whose key does not
WsSigner ==
    /\ \E pkey \in PrivateKeys :
         client = [signer |-> [api_key_id |-> "key-a", pkey |-> pkey],
                   config |-> [base_url |-> DefaultBaseUrl],
                   curl |-> TRUE]
    /\ now = ClockStart
    /\ signed = NoCall
    /\ wire = NoRequest

InitWs == LmvInit /\ WsSigner /\ WsInit /\ RetryIdle /\ RateIdle /\ PageIdle

NextWs ==
    \/ Connect
    \/ ConnectReturn
    \/ ConnectTimeout
    \/ Disconnect
    \/ Join
    \/ DisconnectReturn
    \/ ServiceExit
    \/ Established
    \/ ConnectionError
    \/ Closed

SpecWs == InitWs /\ [][NextWs]_vars

\* the service thread and the transport go on; the caller need not
ServiceStep ==
    \/ ServiceExit
    \/ Established
    \/ ConnectionError
    \/ Closed

SpecWsLive == SpecWs /\ WF_vars(ServiceStep)

(***************************************************************************)
(* The streaming client: commands and the send queue                       *)
(***************************************************************************)
NextWsCmd ==
    \/ Connect
    \/ ConnectReturn
    \/ Established
    \/ Closed
    \/ SubscribeOrderbook
    \/ SubscribeTrades
    \/ SubscribeFills
    \/ SubscribeLifecycle
    \/ Unsubscribe
    \/ AddMarkets
    \/ RemoveMarkets
    \/ QueueSend
    \/ CommandReturn

SpecWsCmd == Init /\ [][NextWsCmd]_vars

\* commands of two kinds issued by two threads and written to the
\* transport
InitWsSend ==
    LmvInit /\ SignIdle /\ WsShared /\ RetryIdle /\ RateIdle /\ PageIdle

NextWsSend ==
    \/ Connect
    \/ ConnectReturn
    \/ Established
    \/ SubscribeLifecycle
    \/ Unsubscribe
    \/ QueueSend
    \/ CommandReturn
    \/ Writeable

SpecWsSend == InitWsSend /\ [][NextWsSend]_vars

(***************************************************************************)
(* The streaming client: inbound fragments                                 *)
(***************************************************************************)
NextWsRecv ==
    \/ Connect
    \/ ConnectReturn
    \/ Established
    \/ Receive

SpecWsRecv == Init /\ [][NextWsRecv]_vars

(***************************************************************************)
(* with_retry                                                              *)
(***************************************************************************)
NextRetry ==
    \/ WithRetry
    \/ Attempt
    \/ Sleep
    \/ RetryReturn

SpecRetry == Init /\ [][NextRetry]_vars

\* the operation returns and a sleep ends
SpecRetryLive == SpecRetry /\ WF_vars(Attempt) /\ WF_vars(Sleep)

(***************************************************************************)
(* The view fed by the connection                                          *)
(***************************************************************************)
NextFeed ==
    \/ Connect
    \/ ConnectReturn
    \/ Established
    \/ FeedView

SpecFeed == Init /\ [][NextFeed]_vars

(***************************************************************************)
(* RateLimiter                                                             *)
(***************************************************************************)
InitRate ==
    LmvInit /\ SignIdle /\ WsIdle /\ RetryIdle /\ RateInit /\ PageIdle

NextRate ==
    \/ SteadyTick
    \/ CallTryAcquire
    \/ CallAcquire
    \/ CallAcquireFor
    \/ TryAcquireEnter
    \/ TryAcquireLeave
    \/ Wake
    \/ AcquireReturn

SpecRate == InitRate /\ [][NextRate]_vars

(***************************************************************************)
(* PaginatedIterator                                                       *)
(***************************************************************************)
NextPageCalls ==
    \/ NextPage
    \/ FetchAll
    \/ FetchAllPage
    \/ PageReturn

SpecPage == Init /\ [][NextPageCalls]_vars

(***************************************************************************)
(* Properties of the view                                                  *)
(***************************************************************************)
Graph(book) == {<<k, book[k]>> : k \in DOMAIN book}

\* the quantity of the last entry of the given price with quantity > 0
LastPositive(entries, price) ==
    LET idx == {i \in 1..Len(entries) :
                    entries[i].price_cents = price /\ entries[i].quantity > 0}
    IN  entries[SetMax(idx)].quantity

PositivePrices(entries) ==
    {entries[i].price_cents : i \in {j \in 1..Len(entries) : entries[j].quantity > 0}}

\* C1: every price level stored in yes_bids or yes_asks of every instrument
\* has a quantity strictly greater than 0.
C1_LevelsPositive ==
    \A t \in DOMAIN states_ :
        /\ \A p \in DOMAIN states_[t].yes_bids : states_[t].yes_bids[p] > 0
        /\ \A p \in DOMAIN states_[t].yes_asks : states_[t].yes_asks[p] > 0

\* a negative delta has just emptied its level while another level remains
C1_Witness ==
    /\ last.type = "OrderbookDelta"
    /\ last.side = "Yes"
    /\ last.delta < 0
    /\ last.price \notin DOMAIN states_[last.market_ticker].yes_bids
    /\ DOMAIN states_[last.market_ticker].yes_bids # {}
    /\ DOMAIN states_[last.market_ticker].yes_asks # {}

\* C2 as stated: after a snapshot yes_bids holds exactly the snapshot's YES
\* entries with quantity > 0, yes_asks exactly the mirrored NO entries with
\* quantity > 0, and last_seq is the snapshot's sequence number.
C2_SnapshotHoldsEveryEntry ==
    [][last'.type = "OrderbookSnapshot" =>
        LET snap == last'
            new == StateAt(states_', snap.market_ticker)
        IN  /\ snap.market_ticker \in DOMAIN states_'
            /\ Graph(new.yes_bids) =
                   {<<snap.yes[i].price_cents, snap.yes[i].quantity>> :
                        i \in {j \in 1..Len(snap.yes) : snap.yes[j].quantity > 0}}
            /\ Graph(new.yes_asks) =
                   {<<100 - snap.no[i].price_cents, snap.no[i].quantity>> :
                        i \in {j \in 1..Len(snap.no) : snap.no[j].quantity > 0}}
            /\ new.last_seq = snap.seq]_vars

\* C2 amended: after a snapshot the books hold, for every price that has an
\* entry with quantity > 0 on that side, the quantity of the last such entry
\* (mirrored to 100 - price for NO entries) and nothing else, whatever the
\* books held before; last_seq is the snapshot's sequence number.
C2_SnapshotReplacesBook ==
    [][last'.type = "OrderbookSnapshot" =>
        LET snap == last'
            new == StateAt(states_', snap.market_ticker)
        IN  /\ snap.market_ticker \in DOMAIN states_'
            /\ DOMAIN new.yes_bids = PositivePrices(snap.yes)
            /\ \A p \in PositivePrices(snap.yes) :
                   new.yes_bids[p] = LastPositive(snap.yes, p)
            /\ DOMAIN new.yes_asks = {100 - p : p \in PositivePrices(snap.no)}
            /\ \A p \in PositivePrices(snap.no) :
                   new.yes_asks[100 - p] = LastPositive(snap.no, p)
            /\ new.last_seq = snap.seq]_vars

\* a snapshot whose YES side names one price twice has been applied
C2_Witness ==
    /\ last.type = "OrderbookSnapshot"
    /\ Len(last.yes) = 2
    /\ last.yes[1].price_cents = last.yes[2].price_cents
    /\ last.yes[1].quantity > last.yes[2].quantity
    /\ last.yes[2].quantity > 0
    /\ states_[last.market_ticker].yes_bids =
           MapPut(EmptyMap, last.yes[2].price_cents, last.yes[2].quantity)
    /\ states_[last.market_ticker].yes_asks = EmptyMap

\* C3: a delta is applied whatever its sequence number: it sets exactly the
\* level yes_bids[price] (YES) or yes_asks[100 - price] (NO) to the old
\* quantity plus d, removes it if that is <= 0, leaves every other level of
\* both sides unchanged and sets last_seq to the delta's seq.
C3_DeltaChangesOneLevel ==
    [][last'.type = "OrderbookDelta" =>
        LET d == last'
            old == StateAt(states_, d.market_ticker)
            new == StateAt(states_', d.market_ticker)
            key == IF d.side = "Yes" THEN d.price ELSE 100 - d.price
            oldBook == IF d.side = "Yes" THEN old.yes_bids ELSE old.yes_asks
            newBook == IF d.side = "Yes" THEN new.yes_bids ELSE new.yes_asks
            q == (IF key \in DOMAIN oldBook THEN oldBook[key] ELSE 0) + d.delta
        IN  /\ d.market_ticker \in DOMAIN states_'
            /\ IF q <= 0 THEN key \notin DOMAIN newBook
                         ELSE key \in DOMAIN newBook /\ newBook[key] = q
            /\ DOMAIN newBook \ {key} = DOMAIN oldBook \ {key}
            /\ \A k \in DOMAIN oldBook \ {key} : newBook[k] = oldBook[k]
            /\ IF d.side = "Yes" THEN new.yes_asks = old.yes_asks
                                 ELSE new.yes_bids = old.yes_bids
            /\ new.last_seq = d.seq]_vars

\* a delta with the lowest sequence number has raised a level that an
\* earlier snapshot or delta (of sequence number >= 1) had created
C3_Witness ==
    /\ last.type = "OrderbookDelta"
    /\ last.side = "No"
    /\ last.seq = 1
    /\ last.delta = 1
    /\ states_[last.market_ticker].last_seq = 1
    /\ (100 - last.price) \in DOMAIN states_[last.market_ticker].yes_asks
    /\ states_[last.market_ticker].yes_asks[100 - last.price] = 2

\* C4: best_bid_price/size are the maximum key of yes_bids and its quantity,
\* best_ask_price/size the minimum key of yes_asks and its quantity, and
\* each pair is absent exactly when its side is empty.
C4_BestBidAsk ==
    \A t \in DOMAIN states_ :
        LET st == states_[t]
        IN  /\ IF DOMAIN st.yes_bids = {}
               THEN st.best_bid_price = Nullopt /\ st.best_bid_size = Nullopt
               ELSE /\ Len(st.best_bid_price) = 1
                    /\ st.best_bid_price[1] \in DOMAIN st.yes_bids
                    /\ \A p \in DOMAIN st.yes_bids : p <= st.best_bid_price[1]
                    /\ st.best_bid_size = <<st.yes_bids[st.best_bid_price[1]]>>
            /\ IF DOMAIN st.yes_asks = {}
               THEN st.best_ask_price = Nullopt /\ st.best_ask_size = Nullopt
               ELSE /\ Len(st.best_ask_price) = 1
                    /\ st.best_ask_price[1] \in DOMAIN st.yes_asks
                    /\ \A p \in DOMAIN st.yes_asks : st.best_ask_price[1] <= p
                    /\ st.best_ask_size = <<st.yes_asks[st.best_ask_price[1]]>>

\* a negative NO delta has left the ask side empty, the best ask is absent
\* and the best bid is the higher of two bid levels
C4_Witness ==
    /\ last.type = "OrderbookDelta"
    /\ last.side = "No"
    /\ last.delta < 0
    /\ states_[last.market_ticker].yes_asks = EmptyMap
    /\ states_[last.market_ticker].best_ask_price = Nullopt
    /\ DOMAIN states_[last.market_ticker].yes_bids = {40, 60}
    /\ states_[last.market_ticker].best_bid_price = <<60>>
    /\ states_[last.market_ticker].best_bid_size = <<1>>

\* C5: a delta for an instrument without state creates the state; a YES
\* delta with positive quantity q at price p leaves yes_bids = {p: q} and
\* empty yes_asks, and get_state is present afterwards.
C5_DeltaCreatesState ==
    [][(last'.type = "OrderbookDelta" /\ last'.market_ticker \notin DOMAIN states_) =>
        LET d == last'
        IN  /\ d.market_ticker \in DOMAIN states_'
            /\ get_state(states_', d.market_ticker) # Nullopt
            /\ (d.side = "Yes" /\ d.delta > 0) =>
                  /\ Graph(states_'[d.market_ticker].yes_bids) = {<<d.price, d.delta>>}
                  /\ states_'[d.market_ticker].yes_asks = EmptyMap]_vars

\* the state holds nothing but the one level of a positive YES delta
C5_Witness ==
    /\ last.type = "OrderbookDelta"
    /\ last.side = "Yes"
    /\ last.delta > 0
    /\ last.market_ticker \in DOMAIN states_
    /\ Graph(states_[last.market_ticker].yes_bids) = {<<last.price, last.delta>>}
    /\ states_[last.market_ticker].yes_asks = EmptyMap
    /\ states_[last.market_ticker].last_trade_ts = Nullopt
    /\ states_[last.market_ticker].last_seq = last.seq

\* C6: a trade overwrites the last trade with its own values whatever was
\* stored, leaves the books, best bid/ask and last_seq as they were, and
\* applying it a second time changes nothing.
C6_TradeOverwrites ==
    [][last'.type = "WsTrade" =>
        LET tr == last'
            old == StateAt(states_, tr.market_ticker)
            new == StateAt(states_', tr.market_ticker)
        IN  /\ tr.market_ticker \in DOMAIN states_'
            /\ new.last_trade_price = <<tr.yes_price>>
            /\ new.last_trade_size = <<tr.count>>
            /\ new.last_trade_taker_side = <<tr.taker_side>>
            /\ new.last_trade_ts = <<tr.timestamp>>
            /\ new.yes_bids = old.yes_bids
            /\ new.yes_asks = old.yes_asks
            /\ new.best_bid_price = old.best_bid_price
            /\ new.best_bid_size = old.best_bid_size
            /\ new.best_ask_price = old.best_ask_price
            /\ new.best_ask_size = old.best_ask_size
            /\ new.last_seq = old.last_seq
            /\ process_message(states_', tr) = states_']_vars

\* the trade with the older timestamp is the stored one, on a book that
\* snapshots or deltas have filled
C6_Witness ==
    /\ last.type = "WsTrade"
    /\ last.timestamp = 1
    /\ states_[last.market_ticker].last_trade_ts = <<1>>
    /\ states_[last.market_ticker].last_trade_price = <<45>>
    /\ states_[last.market_ticker].last_seq = 2
    /\ states_[last.market_ticker].yes_bids # EmptyMap

Books(m, t) ==
    LET st == StateAt(m, t)
    IN  <<st.yes_bids, st.yes_asks, st.best_bid_price, st.best_bid_size,
          st.best_ask_price, st.best_ask_size>>

\* the level a delta addresses
LevelOf(d) == <<d.side, IF d.side = "Yes" THEN d.price ELSE 100 - d.price>>

\* the quantity the level of d would have if d alone were added to it
AloneQty(m, d) ==
    LET st == StateAt(m, d.market_ticker)
        book == IF d.side = "Yes" THEN st.yes_bids ELSE st.yes_asks
        key == LevelOf(d)[2]
    IN  (IF key \in DOMAIN book THEN book[key] ELSE 0) + d.delta

\* C7 as stated: any two deltas of one instrument give the same books and
\* best bid/ask in either order.
C7_DeltasCommute ==
    \A d1, d2 \in OrderbookDelta :
        d1.market_ticker = d2.market_ticker =>
            Books(handle_delta(handle_delta(states_, d1), d2), d1.market_ticker)
            = Books(handle_delta(handle_delta(states_, d2), d1), d1.market_ticker)

\* C7 amended: two deltas of one instrument give the same books and best
\* bid/ask in either order when they address different levels, or when
\* neither of them applied alone would take its level below 0.
C7_DeltasCommuteAboveZero ==
    \A d1, d2 \in OrderbookDelta :
        (/\ d1.market_ticker = d2.market_ticker
         /\ \/ LevelOf(d1) # LevelOf(d2)
            \/ AloneQty(states_, d1) >= 0 /\ AloneQty(states_, d2) >= 0) =>
            Books(handle_delta(handle_delta(states_, d1), d2), d1.market_ticker)
            = Books(handle_delta(handle_delta(states_, d2), d1), d1.market_ticker)

\* the view holds a bid and an ask level, and at the bid an increase and a
\* decrease that empties it give the same books in either order
C7_Witness ==
    \E t \in DOMAIN states_ :
        /\ 60 \in DOMAIN states_[t].yes_bids
        /\ DOMAIN states_[t].yes_asks # {}
        /\ states_[t].last_seq = MaxSeq
        /\ \E d1, d2 \in OrderbookDelta :
               /\ d1.market_ticker = t
               /\ d2.market_ticker = t
               /\ LevelOf(d1) = <<"Yes", 60>>
               /\ LevelOf(d2) = <<"Yes", 60>>
               /\ d1.delta > 0
               /\ d2.delta < 0
               /\ AloneQty(states_, d2) = 0
               /\ Books(handle_delta(handle_delta(states_, d1), d2), t)
                  = Books(handle_delta(handle_delta(states_, d2), d1), t)

(***************************************************************************)
(* Properties of the signer and the HTTP client                            *)
(***************************************************************************)
DigitValue(c) == CHOOSE v \in 0..9 : Digits[v + 1] = c

IsDigit(c) == \E v \in 0..9 : Digits[v + 1] = c

\* the number written by a string of decimal digits
RECURSIVE DecimalValue(_)
DecimalValue(str) ==
    IF Len(str) = 0 THEN 0
    ELSE 10 * DecimalValue(SubSeq(str, 1, Len(str) - 1)) + DigitValue(str[Len(str)])

\* str is the decimal string of n: an optional minus sign, then digits
IsDecimalOf(str, n) ==
    LET digits == IF n < 0 THEN Tail(str) ELSE str
    IN  /\ Len(digits) >= 1
        /\ n < 0 => str[1] = "-"
        /\ \A i \in 1..Len(digits) : IsDigit(digits[i])
        /\ Len(digits) > 1 => digits[1] # "0"
        /\ DecimalValue(digits) = (IF n < 0 THEN 0 - n ELSE n)

\* C8: a successful sign_with_timestamp signs the decimal timestamp, the
\* method and the path concatenated without separators and returns the key
\* id given at construction and the decimal timestamp; sign does the same
\* with the clock's epoch milliseconds as timestamp.
C8_CanonicalMessage ==
    (signed.call # "none" /\ signed.result.ok) =>
        /\ IsDecimalOf(signed.result.timestamp,
                       IF signed.call = "sign" THEN signed.at ELSE signed.timestamp_ms)
        /\ Len(signed.message) =
               Len(signed.result.timestamp) + Len(signed.method) + Len(signed.path)
        /\ SubSeq(signed.message, 1, Len(signed.result.timestamp))
               = signed.result.timestamp
        /\ SubSeq(signed.message, Len(signed.result.timestamp) + 1,
                  Len(signed.result.timestamp) + Len(signed.method))
               = signed.method
        /\ SubSeq(signed.message,
                  Len(signed.result.timestamp) + Len(signed.method) + 1,
                  Len(signed.message))
               = signed.path
        /\ base64_decode(signed.result.signature).message = signed.message
        /\ signed.result.access_key = client.signer.api_key_id

\* sign_with_timestamp has signed a GET with a four digit timestamp
C8_Witness ==
    /\ signed.call = "sign_with_timestamp"
    /\ signed.result.ok
    /\ signed.timestamp_ms = 1234
    /\ signed.message = <<"1", "2", "3", "4", "GET", "/", "markets">>
    /\ signed.result.access_key = "key-b"

\* RSA-PSS verification of a base64 signature under a public key
RsaPssVerify(key_id, md, saltlen, message, signature) ==
    LET sig == base64_decode(signature)
    IN  /\ signature[1] = "base64"
        /\ sig.key = key_id
        /\ sig.padding = "PSS"
        /\ sig.md = md
        /\ sig.saltlen = saltlen
        /\ sig.message = message

Verifies(c) ==
    RsaPssVerify(client.signer.pkey.id, "SHA256", SaltLenDigest,
                 to_string(c.timestamp_ms) \o c.method \o c.path,
                 c.result.signature)

\* C9: every signature sign_with_timestamp returns verifies against
\* timestamp+method+path under the public key with RSA-PSS, SHA-256 and
\* salt length = digest length; when the same triple is signed twice both
\* signatures verify.
C9_SignatureVerifies ==
    [][(signed'.call # "none" /\ signed'.result.ok) =>
          /\ Verifies(signed')
          /\ (/\ signed.call # "none"
              /\ signed.result.ok
              /\ signed.timestamp_ms = signed'.timestamp_ms
              /\ signed.method = signed'.method
              /\ signed.path = signed'.path) => Verifies(signed)]_vars

\* a signature over a negative timestamp made with the second salt
C9_Witness ==
    /\ signed.call = "sign_with_timestamp"
    /\ signed.result.ok
    /\ signed.timestamp_ms = -5
    /\ base64_decode(signed.result.signature).salt = "s2"
    /\ signed.method = <<"POST">>

\* what the transport sends after the host: the path of the URL and its query
RequestTarget(url) == SubSeq(url, 3, Len(url))

\* C10: for every request the client sends, the signed canonical message is
\* timestamp + method sent + path of the URL sent (with the prefix that
\* base_url contributes), and the three auth headers come from that sign
\* call.
C10_SignedPathIsSentPath ==
    wire.sent =>
        LET access_key == wire.headers[1][2]
            signature == wire.headers[2][2]
            timestamp == wire.headers[3][2]
        IN  /\ wire.headers[1][1] = "KALSHI-ACCESS-KEY"
            /\ wire.headers[2][1] = "KALSHI-ACCESS-SIGNATURE"
            /\ wire.headers[3][1] = "KALSHI-ACCESS-TIMESTAMP"
            /\ access_key = client.signer.api_key_id
            /\ base64_decode(signature).message
                   = timestamp \o wire.method \o RequestTarget(wire.url)

(***************************************************************************)
(* Properties of the streaming client                                      *)
(***************************************************************************)
\* the path of a configured URL: what follows the host, "/" when nothing does
UrlPath(url) ==
    IF url = DefaultWsUrl
    THEN <<"/", "trade-api", "/", "ws", "/", "v2">>
    ELSE <<"/">>

HasHeader(req, name, value) ==
    \E i \in 1..Len(req.headers) : req.headers[i] = <<name, value>>

\* C11: every handshake connect() opens is for the path of the configured
\* URL, is preceded in the same call by a sign of method "GET" and that
\* path, and carries the access key, the signature and the timestamp that
\* sign call returned.
C11_HandshakeIsSigned ==
    [][handshake' # handshake =>
          /\ handshake'.path = UrlPath(data.config.url)
          /\ signed'.call = "sign"
          /\ signed'.method = <<"GET">>
          /\ signed'.path = UrlPath(data.config.url)
          /\ signed'.result.ok
          /\ HasHeader(handshake', "KALSHI-ACCESS-KEY", signed'.result.access_key)
          /\ HasHeader(handshake', "KALSHI-ACCESS-SIGNATURE", signed'.result.signature)
          /\ HasHeader(handshake', "KALSHI-ACCESS-TIMESTAMP", signed'.result.timestamp)]_vars

\* the part of C11 the code meets: the sign call and the path
C11_SignsGetAndPath ==
    [][handshake' # handshake =>
          /\ handshake'.path = UrlPath(data.config.url)
          /\ signed'.call = "sign"
          /\ signed'.method = <<"GET">>
          /\ signed'.path = UrlPath(data.config.url)
          /\ signed'.result.ok]_vars

\* the number of times the state-change callback was invoked with
\* disconnected while the context s was the client's
Disconnected(s) ==
    Cardinality({i \in 1..Len(state_log) : state_log[i] = <<s, FALSE>>})

\* C12: every session that disconnect() has ended (also the disconnect()
\* connect() performs on timeout) has been notified as disconnected exactly
\* once in total, whether or not the peer closed or the attempt failed
\* first; a disconnect() on a client without a session notifies nothing.
C12_DisconnectedExactlyOnce ==
    /\ \A s \in lws.ended : Disconnected(s) = 1
    /\ Disconnected(0) = 0

\* C13: whenever disconnect() returns, at whatever point it was called, the
\* service thread has left its loop and has been joined and the context and
\* the connection handle are null; so a further disconnect() returns at its
\* first test and changes nothing.
C13_DisconnectReleases ==
    pc.disconnect = "returned" =>
        /\ data.service_thread = "none"
        /\ data.context = 0
        /\ data.wsi = FALSE

\* an established connection has been lost
ConnectionLost == lws.conn = "closed"

\* the client is making a connection attempt of its own
Reconnecting == data.reconnect_attempts > 0 \/ lws.conn = "connecting"

\* C14: with auto_reconnect enabled, the loss of an established connection
\* leads to a reconnect attempt by the client, and the attempts made never
\* exceed max_reconnect_attempts.
C14_ReconnectsAfterLoss ==
    /\ [](data.reconnect_attempts <= data.config.max_reconnect_attempts)
    /\ [](ConnectionLost /\ data.config.auto_reconnect => <>Reconnecting)

(***************************************************************************)
(* Properties of the commands                                              *)
(***************************************************************************)
\* thread t enters the command op in this step
Calls(t, op) ==
    /\ cmd[t].pc = "idle"
    /\ cmd'[t].pc # "idle"
    /\ cmd'[t].call.op = op

\* the command thread t has entered fails with the error code
FailsWith(t, code) ==
    /\ cmd'[t].pc = "returned"
    /\ ~cmd'[t].result.ok
    /\ cmd'[t].result.code = code

\* C15: a subscribe_orderbook call made while the client is disconnected
\* fails with the error code InvalidRequest.
C15_DisconnectedIsInvalidRequest ==
    [][\A t \in DOMAIN cmd :
          Calls(t, "subscribe_orderbook") /\ ~data.connected
              => FailsWith(t, "InvalidRequest")]_vars

\* the commands that take a list of tickers which must not be empty
NeedTickers == {"subscribe_orderbook", "add_markets", "remove_markets"}

\* thread t enters, in this step, a command that needs tickers with none
CallsWithoutTickers(t) ==
    /\ cmd[t].pc = "idle"
    /\ cmd'[t].pc # "idle"
    /\ cmd'[t].call.op \in NeedTickers
    /\ cmd'[t].call.market_tickers = <<>>

\* a call of thread t fails in this step
CallFails(t) ==
    /\ cmd[t].pc = "idle"
    /\ cmd'[t].pc = "returned"
    /\ ~cmd'[t].result.ok

\* a failing call consumes no command id and enqueues nothing
FailureChangesNothing ==
    \A t \in DOMAIN cmd :
        CallFails(t) => data' = data /\ queued' = queued /\ written' = written

WrittenIds == [i \in 1..Len(written) |-> written[i].msg.id]

\* C17: command ids start at 1 and are unique and strictly increasing in
\* the order in which the commands are transmitted, whatever the
\* interleaving of the calling threads.
C17_IdsIncreaseInTransmissionOrder ==
    /\ Len(written) > 0 => WrittenIds[1] = 1
    /\ \A i, j \in 1..Len(written) : i < j => WrittenIds[i] < WrittenIds[j]

\* the commands in the order in which they went to lws_write
WrittenMsgs == [i \in 1..Len(written) |-> written[i].msg]

\* the errors reported for writes
WriteErrors == SelectSeq(error_log, LAMBDA e : e.code = -1)

\* the writes that failed
FailedWrites == SelectSeq(written, LAMBDA w : ~w.complete)

\* what has been written, followed by what waits, is what was enqueued, in
\* the order of the enqueuing
Delivered == WrittenMsgs \o data.send_queue = queued

\* C18: each writable event writes at most the command at the head of the
\* send queue, the commands are written in the order in which they were
\* enqueued, none is written twice, and a command whose write fails is
\* reported through the error callback and is not written again.
C18_FifoDelivery ==
    [][/\ Len(written') <= Len(written) + 1
       /\ Len(written') = Len(written) + 1
              => /\ written'[Len(written')].msg = Head(data.send_queue)
                 /\ data'.send_queue = Tail(data.send_queue)
       /\ Delivered'
       /\ \A i, j \in 1..Len(written') : i # j => written'[i].msg # written'[j].msg
       /\ Len(WriteErrors') = Len(FailedWrites')]_vars

\* two commands have been written in the order of their enqueuing, the
\* write of the first failed and was reported, and nothing waits
C18_Witness ==
    /\ Len(written) = 2
    /\ ~written[1].complete
    /\ written[2].complete
    /\ WrittenMsgs = queued
    /\ data.send_queue = <<>>
    /\ Len(WriteErrors) = 1

(***************************************************************************)
(* Properties of the receive path                                          *)
(***************************************************************************)
\* the texts of the frames that have ended among the fragments, in order;
\* pending is what the fragments of the frame in progress add up to
RECURSIVE FrameTexts(_, _)
FrameTexts(fragments, pending) ==
    IF fragments = <<>> THEN <<>>
    ELSE LET fragment == Head(fragments)
             text == pending \o fragment.data
         IN  IF fragment.final
             THEN <<text>> \o FrameTexts(Tail(fragments), <<>>)
             ELSE FrameTexts(Tail(fragments), text)

\* what the fragments after the last final fragment add up to
RECURSIVE PendingText(_, _)
PendingText(fragments, pending) ==
    IF fragments = <<>> THEN pending
    ELSE IF Head(fragments).final
         THEN PendingText(Tail(fragments), <<>>)
         ELSE PendingText(Tail(fragments), pending \o Head(fragments).data)

\* the text says "type":"t"
TypeIs(json, t) == Find(json, Quoted("type") \o <<":">> \o Quoted(t), 1) # 0

DataTypes ==
    {"orderbook_snapshot", "orderbook_delta", "trade", "fill", "market_lifecycle"}

\* C19: the handler is invoked once per frame that carries text, in the
\* order received, when
\* the final fragment arrives, with the concatenation of the fragments of
\* that frame and nothing else; the receive buffer holds only the fragments
\* of the frame in progress; a frame of a data type reaches the message
\* handler and a frame of type error reaches only the error handler.
C19_FramesDispatchedOnce ==
    /\ dispatched = SelectSeq(FrameTexts(rx, <<>>), LAMBDA f : f # <<>>)
    /\ data.recv_buffer = PendingText(rx, <<>>)
    /\ Len(message_log)
         = Len(SelectSeq(dispatched, LAMBDA f : \E t \in DataTypes : TypeIs(f, t)))
    /\ Len(SelectSeq(error_log, LAMBDA e : e.code # -1))
         = Len(SelectSeq(dispatched, LAMBDA f : TypeIs(f, "error")))

(***************************************************************************)
(* Properties of with_retry                                                *)
(***************************************************************************)
\* the outcome is one the policy lets with_retry try again
Transient(result, policy) ==
    \/ ~result.ok /\ result.code = "NetworkError" /\ policy.retry_on_network_error
    \/ result.ok /\ result.status_code = 429 /\ policy.retry_on_rate_limit
    \/ result.ok /\ result.status_code >= 500 /\ policy.retry_on_server_error

\* C20: an attempt is followed by another attempt only if its outcome was a
\* NetworkError with retry_on_network_error, a 429 with retry_on_rate_limit
\* or a status >= 500 with retry_on_server_error, and fewer than
\* max_attempts attempts have been made; any other outcome is returned to
\* the caller right after that attempt, unchanged.
C20_RetriesOnlyTransient ==
    [][retry.pc = "operation" =>
          /\ retry'.calls = retry.calls + 1
          /\ IF Transient(retry'.result, retry.policy)
                /\ retry'.calls < retry.policy.max_attempts
             THEN retry'.pc = "sleep"
             ELSE /\ retry'.pc = "returned"
                  /\ retry'.value = retry'.result
                  /\ retry'.sleeps = retry.sleeps]_vars

\* a first attempt was tried again and the second ended in an error that is
\* not transient, which was returned although the policy had attempts left
C20_Witness ==
    /\ retry.pc = "returned"
    /\ retry.calls = 2
    /\ retry.sleeps = 1
    /\ ~retry.value.ok
    /\ retry.value.code = "SigningError"
    /\ retry.policy.retry_on_network_error
    /\ retry.policy.max_attempts > 2

RECURSIVE Pow(_, _)
Pow(b, e) == IF e = 0 THEN 1 ELSE b * Pow(b, e - 1)

\* min(initial_delay * backoff_multiplier^(attempt-1), max_delay)
CappedBackoff(attempt, policy) ==
    LET grown == policy.initial_delay * Pow(policy.backoff_multiplier, attempt - 1)
    IN  IF grown < policy.max_delay THEN grown ELSE policy.max_delay

\* C21: with jitter_factor = 0 the delay before the retry of attempt k is
\* min(initial_delay * backoff_multiplier^(k-1), max_delay); the delays are
\* non-decreasing in the attempt number and never exceed max_delay.
C21_DelayIsCappedBackoff ==
    retry.pc # "idle" /\ retry.policy.jitter_factor = 0
        => /\ \A k \in 1..Len(retry.delays) :
                /\ retry.delays[k] = CappedBackoff(k, retry.policy)
                /\ retry.delays[k] <= retry.policy.max_delay
           /\ \A j, k \in 1..Len(retry.delays) :
                j <= k => retry.delays[j] <= retry.delays[k]

\* without jitter the first delay is initial_delay, the second is twice
\* that, and the third is cut down to max_delay
C21_Witness ==
    /\ retry.pc = "sleep"
    /\ retry.policy.jitter_factor = 0
    /\ Len(retry.delays) = 3
    /\ retry.delays[1] = retry.policy.initial_delay
    /\ retry.delays[2] = retry.policy.initial_delay * retry.policy.backoff_multiplier
    /\ retry.delays[2] > retry.delays[1]
    /\ retry.delays[3] = retry.policy.max_delay
    /\ retry.delays[3] < retry.delays[2] * retry.policy.backoff_multiplier

\* an attempt has been made and its outcome is a response
Responded == retry.pc \in {"sleep", "returned"} /\ retry.calls > 0 /\ retry.result.ok

LeavesTryAcquire(t) == rate.acq[t].pc = "locked" /\ rate'.acq[t].pc # "locked"

\* C23: try_acquire grants exactly when a token is there after the refill
\* and then takes exactly one; the token count never goes below 0; of the
\* tries made by the threads since the bucket was last filled to n tokens,
\* exactly min(tries, n) were granted.
C23_NeverOverGrants ==
    [][/\ limiter'.tokens_ >= 0
       /\ \A t \in DOMAIN rate.acq :
             LeavesTryAcquire(t) =>
                IF limiter.tokens_ > 0
                THEN /\ rate'.granted = rate.granted + 1
                     /\ limiter'.tokens_ = limiter.tokens_ - 1
                ELSE /\ rate'.granted = rate.granted
                     /\ limiter'.tokens_ = limiter.tokens_
       /\ rate'.window.wins = IF rate'.window.tries < rate'.window.n
                              THEN rate'.window.tries
                              ELSE rate'.window.n]_vars

\* two threads have tried for the one token of the bucket within one
\* interval: one has it, the other was refused
C23_Witness ==
    /\ rate.window.n = 1
    /\ rate.window.tries = 2
    /\ rate.window.wins = 1
    /\ limiter.tokens_ = 0
    /\ \E t, u \in DOMAIN rate.acq :
          /\ t # u
          /\ rate.acq[t].pc = "returned" /\ rate.acq[t].result
          /\ rate.acq[u].pc \in {"returned", "sleep"}
          /\ rate.acq[u].pc = "returned" => ~rate.acq[u].result

\* C28: without reset(), the acquisitions granted up to the time t are at
\* most initial_tokens + floor(t / refill_interval), and a refill leaves at
\* most max_tokens in the bucket.
C28_RateIsBounded ==
    [][/\ rate'.granted <= limiter.config_.initial_tokens
                             + rate'.clock \div limiter.config_.refill_interval
       /\ limiter'.last_refill_ # limiter.last_refill_
             => limiter'.tokens_ <= limiter.config_.max_tokens]_vars

\* every token of the bucket and one that a refill added have been granted,
\* and the clock has not yet earned another
C28_Witness ==
    /\ rate.clock >= limiter.config_.refill_interval
    /\ limiter.last_refill_ > 0
    /\ rate.granted > limiter.config_.initial_tokens
    /\ rate.granted = limiter.config_.initial_tokens
                        + rate.clock \div limiter.config_.refill_interval

(***************************************************************************)
(* Properties of the connection's lifetime                                 *)
(***************************************************************************)
\* C24: when disconnect() has returned and no later connect() has set up a
\* connection (the client holds no context), is_connected() is false.
C24_DisconnectedAfterDisconnect ==
    data.context = 0 => ~data.connected

\* C25: connect() creates a context and starts a service thread only when
\* the client holds no context and no thread of an earlier connect(), and
\* never replaces a thread that has not been joined.
C25_OneContextOneThread ==
    [][/\ lws'.contexts > lws.contexts
             => data.context = 0 /\ data.service_thread = "none"
       /\ ~pc'.terminated]_vars

(***************************************************************************)
(* Properties of the view fed by the connection                            *)
(***************************************************************************)
\* the message whose frame arrived in this step
Sent == CHOOSE msg \in FeedMessages : FrameText(msg) = rx'[Len(rx')].data

\* the event the handler is to be called with for the message
Event(msg) == [msg EXCEPT !.market_ticker = <<@>>]

\* a frame of the type has arrived in this step
Arrives(type) == Len(rx') = Len(rx) + 1 /\ Sent.type = type

\* the event handed to the message handler in this step
HandedOver == message_log'[Len(message_log')]

\* C26: the OrderbookDelta delivered for an orderbook_delta frame carries
\* the frame's signed delta, and the view applies it: a negative delta
\* reduces or removes the level.
C26_DeltaKeepsItsSign ==
    [][Arrives("OrderbookDelta") =>
          /\ Len(message_log') = Len(message_log) + 1
          /\ HandedOver.delta = Sent.delta
          /\ states_' = handle_delta(states_, Event(Sent))]_vars

\* C27: the OrderbookSnapshot delivered for an orderbook_snapshot frame
\* carries the frame's YES and NO levels, and the view holds exactly those
\* levels afterwards.
C27_SnapshotCarriesLevels ==
    [][Arrives("OrderbookSnapshot") =>
          /\ Len(message_log') = Len(message_log) + 1
          /\ Len(HandedOver.yes) = Len(Sent.yes)
          /\ Len(HandedOver.no) = Len(Sent.no)
          /\ states_' = handle_snapshot(states_, Event(Sent))]_vars

\* with_retry has given up without a result of the operation
GaveUp ==
    /\ retry.pc = "returned"
    /\ retry.value = Error_network("Max retry attempts exceeded")

\* C29: with_retry invokes the operation at most max_attempts times and
\* returns; when it returns after max_attempts attempts it returns the
\* result of the last attempt and has slept max_attempts - 1 times; it
\* returns "Max retry attempts exceeded" only when max_attempts <= 0, and
\* then the operation was never invoked.
C29_RetryTerminates ==
    /\ [](retry.pc # "idle" =>
            /\ retry.calls <= retry.policy.max_attempts \/ retry.calls = 0
            /\ retry.pc = "returned" /\ retry.calls > 0
                 => /\ retry.value = retry.result
                    /\ retry.sleeps = retry.calls - 1
            /\ GaveUp <=> retry.pc = "returned" /\ retry.policy.max_attempts <= 0
            /\ GaveUp => retry.calls = 0)
    /\ (retry.pc \in {"operation", "sleep"} ~> retry.pc = "returned")

\* every attempt the policy allows has failed with an error that may be
\* retried, and the last of them is what the caller gets
C29_Witness ==
    /\ retry.pc = "returned"
    /\ retry.policy.max_attempts > 2
    /\ retry.calls = retry.policy.max_attempts
    /\ retry.sleeps = retry.policy.max_attempts - 1
    /\ Transient(retry.value, retry.policy)
    /\ ~retry.value.ok

(***************************************************************************)
(* Properties of the paginated iterator                                    *)
(***************************************************************************)
\* the fetch function has been called in this step
Fetches == Len(paging'.fetched) = Len(paging.fetched) + 1

\* the call of the fetch function made in this step
ThisFetch == paging'.fetched[Len(paging'.fetched)]

RECURSIVE ItemsOf(_)
\* the items of the pages, one page after the other
ItemsOf(pages) ==
    IF pages = <<>> THEN <<>>
    ELSE Head(pages).result.items \o ItemsOf(Tail(pages))

\* the next_cursor of the page is absent or empty
LastPage(page) ==
    page.result.next_cursor = Nullopt \/ page.result.next_cursor[1].value = <<>>

\* what a fetch_all that has returned has returned: the first error, or
\* the items of its pages up to the first page without a next page
FetchAllResult ==
    paging.pc = "returned" /\ paging.op = "fetch_all" =>
        LET pages == SubSeq(paging.fetched, paging.from + 1, Len(paging.fetched))
            final == pages[Len(pages)]
        IN  /\ Len(pages) > 0
            /\ \A i \in 1..(Len(pages) - 1) :
                  pages[i].result.ok /\ ~LastPage(pages[i])
            /\ IF final.result.ok
               THEN /\ LastPage(final)
                    /\ paging.value = [ok |-> TRUE, items |-> ItemsOf(pages)]
               ELSE paging.value = final.result

\* C30: next_page asks for the page of the stored cursor; when the fetch
\* fails it returns the error and leaves cursor and has_more as they were,
\* when it succeeds the cursor becomes the page's next_cursor and has_more
\* is true exactly when that cursor is present and not empty; fetch_all
\* returns the items of its pages in fetch order and stops at the first
\* page without a next page, or returns the first error.
C30_IteratorKeepsPosition ==
    [][/\ Fetches =>
            /\ ThisFetch.params.cursor = iter.current_cursor_
            /\ IF ~ThisFetch.result.ok
               THEN /\ iter' = iter
                    /\ paging'.pc = "returned"
                    /\ paging'.value = ThisFetch.result
               ELSE /\ iter'.current_cursor_ = ThisFetch.result.next_cursor
                    /\ iter'.has_more_ = ~LastPage(ThisFetch)
                    /\ paging.pc = "idle" =>
                          paging'.value = [ok |-> TRUE,
                                           items |-> ThisFetch.result.items]
       /\ FetchAllResult']_vars

\* a page was fetched, the fetch of the next page failed, and fetch_all
\* then got that page from the cursor that was kept
C30_Witness ==
    /\ paging.pc = "returned"
    /\ paging.op = "fetch_all"
    /\ paging.value.ok
    /\ Len(paging.fetched) > 2
    /\ paging.fetched[1].result.ok
    /\ ~paging.fetched[2].result.ok
    /\ paging.fetched[2].params.cursor # Nullopt
    /\ paging.fetched[3].params = paging.fetched[2].params
    /\ paging.value.items = paging.fetched[3].result.items

====
